---- MODULE Spec2Model ----
(***************************************************************************)
(* Model of the SICETAC quote client (app/services/sicetac.py), of the     *)
(* route that calls it (app/api/routes.py) and of the services around it:  *)
(* request validation, rate limiting, caching, real-time connections and   *)
(* stored quotations.                                                      *)
(*                                                                         *)
(* Conventions                                                             *)
(*  - A Python str is Str(s), s a sequence of symbols.  A symbol is one of *)
(*    the XML-special characters < > " & ; or a whitespace character on    *)
(*    its own, or a maximal run of other characters ("valor", "lt", "106").*)
(*    Python None is the record None.                                      *)
(*  - A str that is read as XML is XmlStr(d): d is the document the        *)
(*    characters spell, [wf |-> TRUE, root |-> element], or [wf |-> FALSE] *)
(*    when they are not well-formed XML.  Parsing is the library's work    *)
(*    (defusedxml); the model starts from what the parser reports.         *)
(*  - A source element is [prefix, uri, local, text, children]; the parsed *)
(*    element is [tag, text, children] with ElementTree's tag              *)
(*    "{uri}local": the prefix is gone after parsing.                      *)
(*  - A Python float is an IEEE-754 double [s, m, e]: value                *)
(*    (-1)^s * m * 2^e with m a 53-bit magnitude held as a sequence of     *)
(*    bits, least significant first.  Arithmetic rounds to nearest, ties   *)
(*    to even, as the hardware does.  Subnormals, infinities and NaN are   *)
(*    outside the modelled range.                                          *)
(***************************************************************************)
EXTENDS Integers, Sequences, FiniteSets, TLC

(***************************************************************************)
(* Python values                                                           *)
(***************************************************************************)
None == [none |-> TRUE]

Str(s) == [s |-> s]

XmlStr(d) == [xml |-> d]

IsStr(v) == "s" \in DOMAIN v

\* truthiness of an Optional[str]
Truthy(v) == IsStr(v) /\ v.s # <<>>

Whitespace == {" ", "\n", "\t"}

RECURSIVE LStrip(_)
LStrip(s) ==
    IF s # <<>> /\ Head(s) \in Whitespace THEN LStrip(Tail(s)) ELSE s

RECURSIVE RStrip(_)
RStrip(s) ==
    IF s # <<>> /\ s[Len(s)] \in Whitespace
    THEN RStrip(SubSeq(s, 1, Len(s) - 1))
    ELSE s

\* str.strip(): leading and trailing whitespace removed, nothing else.
Strip(s) == RStrip(LStrip(s))

\* `needle in hay` for Python strings: a contiguous occurrence.
Contains(needle, hay) ==
    \E i \in 0..(Len(hay) - Len(needle)) :
        SubSeq(hay, i + 1, i + Len(needle)) = needle

\* str.lower() / str.upper(), symbol by symbol, for the symbols of the model
LowerSym(c) ==
    CASE c = "Body" -> "body"
      [] c = "MessageBody" -> "messagebody"
      [] c = "Message" -> "message"
      [] c = "Code" -> "code"
      [] c = "Type" -> "type"
      [] c = "Header" -> "header"
      [] c = "Envelope" -> "envelope"
      [] c = "AtenderMensajeRNDCResponse" -> "atendermensajerndcresponse"
      [] c = "RETURN" -> "return"
      [] c = "Return" -> "return"
      [] c = "returnCode" -> "returncode"
      [] c = "ErrorMSG" -> "errormsg"
      [] c = "VALOR" -> "valor"
      [] c = "Valor" -> "valor"
      [] c = "VALORHORA" -> "valorhora"
      [] c = "RUTA" -> "ruta"
      [] c = "X" -> "x"
      [] OTHER -> c

Lower(s) == [i \in 1..Len(s) |-> LowerSym(s[i])]

(***************************************************************************)
(* Unbounded naturals as bit sequences, least significant bit first, no    *)
(* leading (high) zero; zero is the empty sequence.                        *)
(***************************************************************************)
\* Recursion below splits its argument in halves, so that its depth is the
\* logarithm of the number of bits.
BTrim(b) ==
    LET H == {i \in 1..Len(b) : b[i] = 1}
    IN  IF H = {} THEN <<>>
        ELSE SubSeq(b, 1, CHOOSE i \in H : \A j \in H : j <= i)

RECURSIVE NatToBits(_)
NatToBits(n) == IF n = 0 THEN <<>> ELSE <<n % 2>> \o NatToBits(n \div 2)

BShl(b, k) == IF b = <<>> THEN <<>> ELSE [i \in 1..k |-> 0] \o b

BShr(b, k) == SubSeq(b, k + 1, Len(b))

\* b extended with high zeros to n bits
BPad(b, n) == b \o [i \in 1..(n - Len(b)) |-> 0]

\* a + b + c for equally long a and b and a carry c: [s, c], s as long as a
RECURSIVE BAddC(_, _, _)
BAddC(a, b, c) ==
    IF Len(a) = 0 \/ c \notin {0, 1} THEN [s |-> <<>>, c |-> c]
    ELSE IF Len(a) = 1
    THEN [s |-> <<(a[1] + b[1] + c) % 2>>, c |-> (a[1] + b[1] + c) \div 2]
    ELSE LET h  == Len(a) \div 2
             lo == BAddC(SubSeq(a, 1, h), SubSeq(b, 1, h), c)
             hi == BAddC(SubSeq(a, h + 1, Len(a)), SubSeq(b, h + 1, Len(b)), lo.c)
         IN  [s |-> lo.s \o hi.s, c |-> hi.c]

BAdd(a, b) ==
    LET n == IF Len(a) < Len(b) THEN Len(b) ELSE Len(a)
        x == BAddC(BPad(a, n), BPad(b, n), 0)
    IN  IF x.c = 1 THEN x.s \o <<1>> ELSE x.s

\* a - b - c for equally long a and b and a borrow c: [s, c]
RECURSIVE BSubC(_, _, _)
BSubC(a, b, c) ==
    IF Len(a) = 0 \/ c \notin {0, 1} THEN [s |-> <<>>, c |-> c]
    ELSE IF Len(a) = 1
    THEN [s |-> <<(a[1] - b[1] - c) % 2>>,
          c |-> IF a[1] - b[1] - c < 0 THEN 1 ELSE 0]
    ELSE LET h  == Len(a) \div 2
             lo == BSubC(SubSeq(a, 1, h), SubSeq(b, 1, h), c)
             hi == BSubC(SubSeq(a, h + 1, Len(a)), SubSeq(b, h + 1, Len(b)), lo.c)
         IN  [s |-> lo.s \o hi.s, c |-> hi.c]

\* a - b for a >= b
BSub(a, b) == BTrim(BSubC(a, BPad(b, Len(a)), 0).s)

\* -1, 0, 1 as a < b, a = b, a > b
BCmp(a, b) ==
    IF Len(a) < Len(b) THEN -1
    ELSE IF Len(a) > Len(b) THEN 1
    ELSE LET D == {i \in 1..Len(a) : a[i] # b[i]}
             h == CHOOSE i \in D : \A j \in D : j <= i
         IN  IF D = {} THEN 0 ELSE IF a[h] < b[h] THEN -1 ELSE 1

RECURSIVE BMul(_, _)
BMul(a, b) ==
    IF a = <<>> \/ b = <<>> THEN <<>>
    ELSE IF Len(b) = 1 THEN (IF b[1] = 1 THEN a ELSE <<>>)
    ELSE LET h == Len(b) \div 2
         IN  BAdd(BMul(a, BTrim(SubSeq(b, 1, h))),
                  BShl(BMul(a, BTrim(SubSeq(b, h + 1, Len(b)))), h))

\* (r * 2^Len(a) + a) divided by a small positive integer d, for r < d:
\* [q, r], q as long as a
RECURSIVE BDivR(_, _, _)
BDivR(a, d, r) ==
    IF Len(a) = 0 \/ r \notin 0..(d - 1) THEN [q |-> <<>>, r |-> r]
    ELSE IF Len(a) = 1
    THEN LET r2 == 2 * r + a[1]
         IN  [q |-> <<IF r2 >= d THEN 1 ELSE 0>>,
              r |-> IF r2 >= d THEN r2 - d ELSE r2]
    ELSE LET h  == Len(a) \div 2
             hi == BDivR(SubSeq(a, h + 1, Len(a)), d, r)
             lo == BDivR(SubSeq(a, 1, h), d, hi.r)
         IN  [q |-> lo.q \o hi.q, r |-> lo.r]

BDiv(a, d) == LET x == BDivR(a, d, 0) IN [q |-> BTrim(x.q), r |-> x.r]

\* trailing (low) zero bits removed: [b, k] with the argument = b * 2^k
BOdd(b) ==
    LET H == {i \in 1..Len(b) : b[i] = 1}
        l == CHOOSE i \in H : \A j \in H : i <= j
    IN  IF H = {} THEN [b |-> <<>>, k |-> 0]
        ELSE [b |-> SubSeq(b, l, Len(b)), k |-> l - 1]

RECURSIVE Pow10(_)
Pow10(n) == IF n = 0 THEN 1 ELSE 10 * Pow10(n - 1)

(***************************************************************************)
(* IEEE-754 binary64 (Python float)                                        *)
(***************************************************************************)
MantissaBits == 53

FZero == [s |-> 0, m |-> <<>>, e |-> 0]

\* The double nearest to (-1)^s * (n + fraction) * 2^e, where sticky = 1 says
\* that a non-zero fraction below the last bit of n was cut off already.
RoundToDouble(s, n, sticky, e) ==
    IF n = <<>>
    THEN FZero
    ELSE IF Len(n) <= MantissaBits
    THEN [s |-> s,
          m |-> BShl(n, MantissaBits - Len(n)),
          e |-> e - (MantissaBits - Len(n))]
    ELSE LET d     == Len(n) - MantissaBits
             guard == n[d]
             below == sticky = 1 \/ \E i \in 1..(d - 1) : n[i] = 1
             m0    == BShr(n, d)
             up    == guard = 1 /\ (below \/ m0[1] = 1)
             m1    == IF up THEN BAdd(m0, <<1>>) ELSE m0
         IN  IF Len(m1) > MantissaBits
             THEN [s |-> s, m |-> BShr(m1, 1), e |-> e + d + 1]
             ELSE [s |-> s, m |-> m1, e |-> e + d]

\* The double a decimal literal denotes: (-1)^s * n / 10^frac.
DecToDouble(s, n, frac) ==
    LET k == 64 + 4 * frac
        x == BDiv(BShl(NatToBits(n), k), Pow10(frac))
    IN  IF n = 0
        THEN [FZero EXCEPT !.s = s]
        ELSE RoundToDouble(s, x.q, IF x.r = 0 THEN 0 ELSE 1, -k)

FIsZero(a) == a.m = <<>>

\* a * b
FMul(a, b) ==
    LET sg == (a.s + b.s) % 2
        x  == BOdd(a.m)
        y  == BOdd(b.m)
    IN  IF FIsZero(a) \/ FIsZero(b)
        THEN [FZero EXCEPT !.s = sg]
        ELSE RoundToDouble(sg, BMul(x.b, y.b), 0, a.e + x.k + b.e + y.k)

\* a + b
FAdd(a, b) ==
    IF FIsZero(a) /\ FIsZero(b) THEN [FZero EXCEPT !.s = IF a.s = 1 /\ b.s = 1 THEN 1 ELSE 0]
    ELSE IF FIsZero(a) THEN b
    ELSE IF FIsZero(b) THEN a
    ELSE LET e  == IF a.e < b.e THEN a.e ELSE b.e
             x  == BShl(a.m, a.e - e)
             y  == BShl(b.m, b.e - e)
             c  == BCmp(x, y)
         IN  IF a.s = b.s THEN RoundToDouble(a.s, BAdd(x, y), 0, e)
             ELSE IF c = 0 THEN FZero
             ELSE IF c > 0 THEN RoundToDouble(a.s, BSub(x, y), 0, e)
             ELSE RoundToDouble(b.s, BSub(y, x), 0, e)

\* a == b for floats (-0.0 == 0.0)
FEq(a, b) ==
    IF FIsZero(a) \/ FIsZero(b) THEN FIsZero(a) /\ FIsZero(b) ELSE a = b

\* a < b
FLt(a, b) ==
    IF FIsZero(a) /\ FIsZero(b) THEN FALSE
    ELSE IF FIsZero(a) THEN b.s = 0
    ELSE IF FIsZero(b) THEN a.s = 1
    ELSE IF a.s # b.s THEN a.s = 1
    ELSE LET e == IF a.e < b.e THEN a.e ELSE b.e
             c == BCmp(BShl(a.m, a.e - e), BShl(b.m, b.e - e))
         IN  IF a.s = 0 THEN c < 0 ELSE c > 0

FLe(a, b) == FLt(a, b) \/ FEq(a, b)

(***************************************************************************)
(* float() and _to_float                                                   *)
(***************************************************************************)
Digits == {"0", "1", "2", "3", "4", "5", "6", "7", "8", "9"}

DigitVal(c) ==
    CASE c = "0" -> 0 [] c = "1" -> 1 [] c = "2" -> 2 [] c = "3" -> 3
      [] c = "4" -> 4 [] c = "5" -> 5 [] c = "6" -> 6 [] c = "7" -> 7
      [] c = "8" -> 8 [] c = "9" -> 9

RECURSIVE DigitsToNat(_)
DigitsToNat(ds) ==
    IF ds = <<>> THEN 0
    ELSE 10 * DigitsToNat(SubSeq(ds, 1, Len(ds) - 1)) + DigitVal(ds[Len(ds)])

\* float(s) for a str of digits, sign, point, whitespace and other symbols:
\* [ok |-> TRUE, value] or [ok |-> FALSE] for ValueError.  Surrounding
\* whitespace is ignored; the literal is [sign] digits [. digits] with at
\* least one digit.  (Exponents, "inf", "nan" and "_" are not symbols of the
\* model.)
PyFloat(s) ==
    LET t      == Strip(s)
        signed == t # <<>> /\ t[1] \in {"+", "-"}
        neg    == IF signed /\ t[1] = "-" THEN 1 ELSE 0
        body   == IF signed THEN Tail(t) ELSE t
        dots   == {i \in 1..Len(body) : body[i] = "."}
        digits == SelectSeq(body, LAMBDA c : c # ".")
        frac   == IF dots = {} THEN 0 ELSE Len(body) - (CHOOSE i \in dots : TRUE)
        ok     == /\ Cardinality(dots) <= 1
                  /\ digits # <<>>
                  /\ \A i \in 1..Len(digits) : digits[i] \in Digits
    IN  IF ok
        THEN [ok |-> TRUE, value |-> DecToDouble(neg, DigitsToNat(digits), frac)]
        ELSE [ok |-> FALSE]

ToFloat(value) ==
    IF value = None \/ value.s = <<>>
    THEN None
    ELSE LET r == PyFloat(value.s) IN IF r.ok THEN r.value ELSE None

(***************************************************************************)
(* XML as the parser reports it                                            *)
(***************************************************************************)
\* A source element without namespace
E(local, text, children) ==
    [prefix |-> "", uri |-> <<>>, local |-> local, text |-> text,
     children |-> children]

\* A source element with a namespace: prefix "" is the default namespace
NsE(prefix, uri, local, text, children) ==
    [prefix |-> prefix, uri |-> uri, local |-> local, text |-> text,
     children |-> children]

\* ElementTree's tag of a source element
QName(uri, local) ==
    IF uri = <<>> THEN local ELSE <<"{">> \o uri \o <<"}">> \o local

\* A prefix that no xmlns declaration binds makes the document malformed
RECURSIVE Bound(_)
Bound(e) ==
    /\ (e.prefix # "" => e.uri # <<>>)
    /\ \A i \in 1..Len(e.children) : Bound(e.children[i])

RECURSIVE Tree(_)
Tree(e) ==
    [tag      |-> QName(e.uri, e.local),
     text     |-> e.text,
     children |-> [i \in 1..Len(e.children) |-> Tree(e.children[i])]]

ParseError == [error |-> "ParseError"]

\* ET.fromstring(text): the root element, or ParseError
FromString(text) ==
    IF "xml" \in DOMAIN text /\ text.xml.wf /\ Bound(text.xml.root)
    THEN Tree(text.xml.root)
    ELSE ParseError

\* Element.iter(): the element and its descendants, in document order
RECURSIVE Iter(_)
RECURSIVE IterAll(_)
Iter(e) == <<e>> \o IterAll(e.children)
IterAll(es) == IF es = <<>> THEN <<>> ELSE Iter(Head(es)) \o IterAll(Tail(es))

\* The first of the elements found (the loop's `break`), or None
First(found) == IF found = <<>> THEN None ELSE Head(found)

\* Element.find(name) / findall(name) for a plain child name
Find(e, name) == First(SelectSeq(e.children, LAMBDA c : c.tag = name))

FindAll(e, name) == SelectSeq(e.children, LAMBDA c : c.tag = name)

\* Element.find('.//' + name): the first descendant with that tag
FindDescendant(e, name) ==
    First(SelectSeq(IterAll(e.children), LAMBDA c : c.tag = name))

(***************************************************************************)
(* SicetacClient._parse_response                                           *)
(***************************************************************************)
HTTP_404_NOT_FOUND == 404

HTTP_502_BAD_GATEWAY == 502

HTTPException(status_code, detail) ==
    [kind |-> "HTTPException", status_code |-> status_code, detail |-> detail]

Return(value) == [kind |-> "return", value |-> value]

\* 'Body' in elem.tag
\* Mutant of IsBody: only the Body of the SOAP 1.1 namespace is accepted
IsBodyExact(elem) == elem.tag = QName(<<"http://schemas.xmlsoap.org/soap/envelope/">>, <<"Body">>)

IsBody(elem) == Contains(<<"Body">>, elem.tag)

\* 'AtenderMensajeRNDCResponse' in elem.tag
IsResponse(elem) == Contains(<<"AtenderMensajeRNDCResponse">>, elem.tag)

\* 'return' in elem.tag.lower()
IsReturn(elem) == Contains(<<"return">>, Lower(elem.tag))

\* for elem in response_elem.iter(): ...; then response_elem.find('.//return')
ReturnElem(response_elem) ==
    LET return_elem == First(SelectSeq(Iter(response_elem), IsReturn))
    IN  IF return_elem = None
        THEN FindDescendant(response_elem, <<"return">>)
        ELSE return_elem

\* The try block: the root of the business document, or the exception raised
InnerRoot(response_text) ==
    LET soap_root     == FromString(response_text)
        body          == First(SelectSeq(soap_root.children, IsBody))
        response_elem == First(SelectSeq(body.children, IsResponse))
        return_elem   == ReturnElem(response_elem)
        root          == FromString(return_elem.text)
        failed        == HTTPException(HTTP_502_BAD_GATEWAY,
                             Str(<<"Failed to parse response from Sicetac">>))
    IN  IF soap_root = ParseError THEN failed
        ELSE IF body = None
        THEN HTTPException(HTTP_502_BAD_GATEWAY,
                 Str(<<"Invalid SOAP response from SICETAC">>))
        ELSE IF response_elem = None
        THEN HTTPException(HTTP_502_BAD_GATEWAY,
                 Str(<<"Invalid SICETAC response structure">>))
        ELSE IF return_elem = None \/ return_elem.text = None
        THEN HTTPException(HTTP_502_BAD_GATEWAY,
                 Str(<<"Empty response from SICETAC">>))
        ELSE IF root = ParseError THEN failed
        ELSE Return(root)

\* child.text or ""
TextOrEmpty(child) == IF Truthy(child.text) THEN child.text.s ELSE <<>>

\* {child.tag.lower(): (child.text or "").strip() for child in document}:
\* a later child replaces the value an earlier one gave its key
Values(document) ==
    LET key(i) == Lower(document.children[i].tag)
        keys   == {key(i) : i \in 1..Len(document.children)}
        last(k) == CHOOSE i \in 1..Len(document.children) :
                       /\ key(i) = k
                       /\ \A j \in 1..Len(document.children) : key(j) = k => j <= i
    IN  [k \in keys |-> Str(Strip(TextOrEmpty(document.children[last(k)])))]

\* dict.get(key)
Get(values, key) == IF key \in DOMAIN values THEN values[key] ELSE None

\* minimum_payable = mobilization; if hour_value is not None: minimum_payable +=
\* hour_value * quote_request.logistics_hours
MinimumPayable(mobilization, hour_value, logistics_hours) ==
    IF hour_value # None
    THEN FAdd(mobilization, FMul(hour_value, logistics_hours))
    ELSE mobilization

\* The hour value the minimum is computed from
HourValue(values) == ToFloat(Get(values, <<"valorhora">>))

\* Mutant of QuoteOf: a document without a usable valorhora is skipped too
QuoteOfStrict(values, quote_request) ==
    LET mobilization == ToFloat(Get(values, <<"valor">>))
        hour_value   == ToFloat(Get(values, <<"valorhora">>))
    IN  IF mobilization = None \/ hour_value = None THEN <<>>
        ELSE << [route_code         |-> Get(values, <<"ruta">>),
                 route_name         |-> Get(values, <<"nombreruta">>),
                 unit_type          |-> Get(values, <<"nombreunidadtransporte">>),
                 cargo_type         |-> Get(values, <<"nombretipocarga">>),
                 mobilization_value |-> mobilization,
                 ton_value          |-> ToFloat(Get(values, <<"valortonelada">>)),
                 hour_value         |-> hour_value,
                 distance_km        |-> ToFloat(Get(values, <<"distancia">>)),
                 minimum_payable    |-> FAdd(mobilization,
                                            FMul(hour_value, quote_request.logistics_hours))] >>

\* The body of the loop over the documents: <<quote>>, or <<>> on `continue`
QuoteOf(values, quote_request) ==
    LET mobilization_text == Get(values, <<"valor">>)
        mobilization      == ToFloat(mobilization_text)
        hour_value        == HourValue(values)
    IN  IF mobilization_text = None \/ mobilization_text = Str(<<>>) THEN <<>>
        ELSE IF mobilization = None THEN <<>>
        ELSE << [route_code         |-> Get(values, <<"ruta">>),
                 route_name         |-> Get(values, <<"nombreruta">>),
                 unit_type          |-> Get(values, <<"nombreunidadtransporte">>),
                 cargo_type         |-> Get(values, <<"nombretipocarga">>),
                 mobilization_value |-> mobilization,
                 ton_value          |-> ToFloat(Get(values, <<"valortonelada">>)),
                 hour_value         |-> hour_value,
                 distance_km        |-> ToFloat(Get(values, <<"distancia">>)),
                 minimum_payable    |-> MinimumPayable(mobilization, hour_value,
                                            quote_request.logistics_hours)] >>

RECURSIVE Quotes(_, _)
Quotes(documents, quote_request) ==
    IF documents = <<>> THEN <<>>
    ELSE Quotes(SubSeq(documents, 1, Len(documents) - 1), quote_request)
         \o QuoteOf(Values(documents[Len(documents)]), quote_request)

\* Mutant of ErrorDetail: the text as it came, not stripped
ErrorDetailRaw(error_node) == error_node.text

\* error_node.text.strip()
ErrorDetail(error_node) == Str(Strip(error_node.text.s))

\* Mutant of Extract: whatever was extracted is returned, an empty list too
ExtractLenient(root, quote_request) ==
    LET error_node == Find(root, <<"ErrorMSG">>)
        documents  == FindAll(root, <<"documento">>)
    IN  IF error_node # None /\ Truthy(error_node.text)
        THEN HTTPException(HTTP_404_NOT_FOUND, ErrorDetail(error_node))
        ELSE IF documents = <<>>
        THEN HTTPException(HTTP_404_NOT_FOUND,
                 Str(<<"Sicetac response did not include any quotes">>))
        ELSE Return(Quotes(documents, quote_request))

\* Mutant of Extract: one message for both not-found cases
ExtractOneMessage(root, quote_request) ==
    LET error_node == Find(root, <<"ErrorMSG">>)
        results    == Quotes(FindAll(root, <<"documento">>), quote_request)
    IN  IF error_node # None /\ Truthy(error_node.text)
        THEN HTTPException(HTTP_404_NOT_FOUND, ErrorDetail(error_node))
        ELSE IF results = <<>>
        THEN HTTPException(HTTP_404_NOT_FOUND,
                 Str(<<"Sicetac response did not include any quotes">>))
        ELSE Return(results)

\* After the try block: the business document to quotes, or the exception
Extract(root, quote_request) ==
    LET error_node == Find(root, <<"ErrorMSG">>)
        documents  == FindAll(root, <<"documento">>)
        results    == Quotes(documents, quote_request)
    IN  IF error_node # None /\ Truthy(error_node.text)
        THEN HTTPException(HTTP_404_NOT_FOUND, ErrorDetail(error_node))
        ELSE IF documents = <<>>
        THEN HTTPException(HTTP_404_NOT_FOUND,
                 Str(<<"Sicetac response did not include any quotes">>))
        ELSE IF results = <<>>
        THEN HTTPException(HTTP_404_NOT_FOUND,
                 Str(<<"Sicetac did not return monetary values for the requested parameters">>))
        ELSE Return(results)

\* Mutant of ParseResponse: every error of decoding is replaced by one 502
ParseResponseWrapped(response_text, quote_request) ==
    LET inner  == InnerRoot(response_text)
        result == IF inner.kind = "return" THEN Extract(inner.value, quote_request) ELSE inner
    IN  IF result.kind = "return" THEN result
        ELSE HTTPException(HTTP_502_BAD_GATEWAY, Str(<<"Failed to fetch quotes">>))

ParseResponse(response_text, quote_request) ==
    LET inner == InnerRoot(response_text)
    IN  IF inner.kind = "return" THEN Extract(inner.value, quote_request) ELSE inner

(***************************************************************************)
(* SicetacClient._build_payload                                            *)
(***************************************************************************)
_DEFAULT_VARIABLES ==
    << <<"RUTA">>, <<"NOMBREUNIDADTRANSPORTE">>, <<"NOMBRETIPOCARGA">>,
       <<"NOMBRERUTA">>, <<"VALOR">>, <<"VALORTONELADA">>, <<"VALORHORA">>,
       <<"DISTANCIA">> >>

\* sep.join(items)
RECURSIVE Join(_, _)
Join(sep, items) ==
    IF items = <<>> THEN <<>>
    ELSE IF Len(items) = 1 THEN items[1]
    ELSE items[1] \o sep \o Join(sep, Tail(items))

\* s.replace(c, r) for a one-symbol c
RECURSIVE Replace(_, _, _)
Replace(s, c, r) ==
    IF Len(s) = 0 THEN <<>>
    ELSE IF Len(s) = 1 THEN (IF s[1] = c THEN r ELSE s)
    ELSE Replace(SubSeq(s, 1, Len(s) \div 2), c, r)
         \o Replace(SubSeq(s, Len(s) \div 2 + 1, Len(s)), c, r)

\* str.upper() for the symbols of the filters
UpperSym(c) ==
    CASE c = "estacas" -> "ESTACAS"
      [] c = "Estacas" -> "ESTACAS"
      [] c = "general" -> "GENERAL"
      [] c = "General" -> "GENERAL"
      [] c = "Liquids" -> "LIQUIDS"
      [] c = "valor" -> "VALOR"
      [] c = "s" -> "S"
      [] OTHER -> c

Upper(s) == [i \in 1..Len(s) |-> UpperSym(s[i])]

Open(name) == <<"<", name, ">">>

Close(name) == <<"<", "/", name, ">">>

Wrap(name, content) == Open(name) \o content \o Close(name)

\* Mutant of DocumentLines: the two filters are left out
DocumentLinesUnfiltered(quote_request) ==
    << Wrap("NUMNITEMPRESATRANSPORTE", <<"900982995">>),
       Wrap("PERIODO", quote_request.period.s),
       Wrap("CONFIGURACION", quote_request.configuration.s),
       Wrap("ORIGEN", quote_request.origin.s),
       Wrap("DESTINO", quote_request.destination.s) >>

DocumentLines(quote_request) ==
    << Wrap("NUMNITEMPRESATRANSPORTE", <<"900982995">>),
       Wrap("PERIODO", quote_request.period.s),
       Wrap("CONFIGURACION", quote_request.configuration.s),
       Wrap("ORIGEN", quote_request.origin.s),
       Wrap("DESTINO", quote_request.destination.s) >>
    \o (IF Truthy(quote_request.unit_type)
        THEN << Wrap("NOMBREUNIDADTRANSPORTE", Upper(quote_request.unit_type.s)) >>
        ELSE <<>>)
    \o (IF Truthy(quote_request.cargo_type)
        THEN << Wrap("NOMBRETIPOCARGA", Upper(quote_request.cargo_type.s)) >>
        ELSE <<>>)

\* Mutant of VariableString: the override is not looked at
VariableStringDefault(quote_request) == Join(<<",", " ">>, _DEFAULT_VARIABLES)

VariableString(quote_request) ==
    Join(<<",", " ">>,
         IF quote_request.variables = None \/ quote_request.variables = <<>>
         THEN _DEFAULT_VARIABLES
         ELSE quote_request.variables)

\* inner_xml
InnerXml(quote_request, settings) ==
    <<"<", "?xml version='1.0' encoding='ISO-8859-1' ?", ">", "\n">>
    \o Open("root") \o <<"\n", "  ">>
    \o Open("acceso") \o <<"\n", "    ">>
    \o Wrap("username", settings.sicetac_username.s) \o <<"\n", "    ">>
    \o Wrap("password", settings.sicetac_password.s) \o <<"\n", "  ">>
    \o Close("acceso") \o <<"\n", "  ">>
    \o Open("solicitud") \o <<"\n", "    ">>
    \o Wrap("tipo", <<"1">>) \o <<"\n", "    ">>
    \o Wrap("procesoid", <<"26">>) \o <<"\n", "  ">>
    \o Close("solicitud") \o <<"\n", "  ">>
    \o Open("variables") \o <<"\n", "    ">>
    \o VariableString(quote_request) \o <<"\n", "  ">>
    \o Close("variables") \o <<"\n", "  ">>
    \o Open("documento") \o <<"\n", "    ">>
    \o Join(<<"\n", "    ">>, DocumentLines(quote_request)) \o <<"\n", "  ">>
    \o Close("documento") \o <<"\n">>
    \o Close("root")

\* inner_xml.replace('<', '&lt;').replace('>', '&gt;').replace('"', '&quot;')
EscapeInner(inner_xml) ==
    Replace(Replace(Replace(inner_xml, "<", <<"&", "lt", ";">>),
                    ">", <<"&", "gt", ";">>),
            "\"", <<"&", "quot", ";">>)

\* The envelope around the Request text is fixed text, held as two symbols
BuildPayload(quote_request, settings) ==
    <<"<?xml ...><SOAP-ENV:Envelope ...><SOAP-ENV:Body ...><NS1:AtenderMensajeRNDC ...><Request xsi:type=\"xsd:string\">">>
    \o EscapeInner(InnerXml(quote_request, settings))
    \o <<"</Request></NS1:AtenderMensajeRNDC></SOAP-ENV:Body></SOAP-ENV:Envelope>">>

\* Symbols with a character that ISO-8859-1 cannot encode
NonLatin1 == {"\\u20ac"}

\* payload.encode("iso-8859-1") does not raise UnicodeEncodeError
Encodable(payload) == \A i \in 1..Len(payload) : payload[i] \notin NonLatin1

(***************************************************************************)
(* Upstream responses                                                      *)
(***************************************************************************)
SoapEnvUri == <<"http://schemas.xmlsoap.org/soap/envelope/">>

Ns1Uri == <<"urn:BPMServicesIntf-IBPMServices">>

\* A field of a documento
F(tag, chars) == E(<<tag>>, IF chars = <<>> THEN None ELSE Str(chars), <<>>)

\* A well-formed business document with these top-level elements
Doc(children) == XmlStr([wf |-> TRUE, root |-> E(<<"root">>, None, children)])

NotXml == XmlStr([wf |-> FALSE])

\* The envelope the service sends (debug_soap_response.py), around a return
\* text: SOAP-ENV:Envelope / SOAP-ENV:Body / NS1:AtenderMensajeRNDCResponse /
\* return
Envelope(return_text) ==
    XmlStr([wf |-> TRUE, root |->
        NsE("SOAP-ENV", SoapEnvUri, <<"Envelope">>, None, <<
            NsE("SOAP-ENV", SoapEnvUri, <<"Body">>, None, <<
                NsE("NS1", Ns1Uri, <<"AtenderMensajeRNDCResponse">>, None, <<
                    E(<<"return">>, return_text, <<>>) >>) >>) >>)])

\* The same structure under other namespace bindings: env, resp and ret are
\* the <<prefix, uri>> of the envelope and body, of the response element and
\* of the return element
EnvelopeAs(env, resp, ret, return_text) ==
    XmlStr([wf |-> TRUE, root |->
        NsE(env[1], env[2], <<"Envelope">>, None, <<
            NsE(env[1], env[2], <<"Body">>, None, <<
                NsE(resp[1], resp[2], <<"AtenderMensajeRNDCResponse">>, None, <<
                    NsE(ret[1], ret[2], <<"return">>, return_text, <<>>) >>) >>) >>)])

\* debug_soap_response.py: the service's "no information" answer
ErrorSample ==
    Doc(<< F("ErrorMSG", <<"NO", " ", "SE", " ", "ENCONTRO", " ", "INFORMACION">>) >>)

\* scripts/local_sicetac_stub.py: SAMPLE_XML
SAMPLE_XML ==
    Doc(<< E(<<"documento">>, None, <<
               F("ruta", <<"106">>),
               F("nombreunidadtransporte", <<"TERMOKING">>),
               F("nombretipocarga", <<"Carga", " ", "Refrigerada">>),
               F("nombreruta", <<"BOGOTA", " ", "_", " ", "MEDELLIN">>),
               F("valor", <<"2", "6", "9", "3", "3", "0", "8", ".", "9", "6">>),
               F("valortonelada", <<"7", "9", "2", "1", "4", ".", "9", "7">>),
               F("valorhora", <<"5", "5", "1", "1", "8">>),
               F("distancia", <<"4", "1", "6">>) >>),
           E(<<"documento">>, None, <<
               F("ruta", <<"106">>),
               F("nombreunidadtransporte", <<"ESTACAS">>),
               F("nombretipocarga", <<"General">>),
               F("nombreruta", <<"BOGOTA", " ", "_", " ", "MEDELLIN">>),
               F("valor", <<"2", "4", "7", "8", "9", "4", "9", ".", "6", "7">>),
               F("valortonelada", <<"7", "2", "9", "1", "0", ".", "2", "8">>),
               F("valorhora", <<"3", "7", "9", "2", "6", ".", "8", "9">>),
               F("distancia", <<"4", "1", "6">>) >>) >>)

(***************************************************************************)
(* State                                                                   *)
(***************************************************************************)
VARIABLES
    pc,         \* per call: where create_quote / fetch_quotes stands
    query,      \* per call: the QuoteRequest
    payload,    \* per call: the payload _build_payload returned
    attempts,   \* per call: what each attempt of _post_payload ended with
    delays,     \* per call: the seconds slept before each further attempt
    response,   \* per call: response.text of the attempt that succeeded
    outcome,    \* per call: what fetch_quotes returned or raised
    http,       \* per call: the status the route's caller receives
    body,       \* per call: the request body the route received, or None
    settings,   \* get_settings(): the configuration of the application
    environment, \* what the clients may ask and the network and upstream answer
    clock,      \* time.time() / datetime.utcnow(), in whole seconds
    middleware, \* the RateLimitMiddleware: its managers and their buckets
    cache_service, \* the CacheService: its memory cache, and the Redis it uses
    connection_manager, \* the ConnectionManager and the broadcasts in progress
    db,         \* the quotations table
    log         \* what the callers of these services have observed

callVars == <<pc, query, payload, attempts, delays, response, outcome, http, body>>

serviceVars == <<clock, middleware, cache_service, connection_manager, db, log>>

vars == <<callVars, settings, environment, serviceVars>>

(***************************************************************************)
(* The retry policy of _retry_request (tenacity)                           *)
(***************************************************************************)
\* stop=stop_after_attempt(3)
MaxAttempts == 3

\* wait=wait_exponential(multiplier=1, min=1, max=10)
WaitMultiplier == 1

WaitMin == 1

WaitMax == 10

RECURSIVE Pow2(_)
Pow2(n) == IF n = 0 THEN 1 ELSE 2 * Pow2(n - 1)

\* The decorator names no retry= condition: tenacity then retries whenever
\* the wrapped coroutine raised, whatever it raised.
ShouldRetry(exc) == TRUE

\* Mutants of ShouldStop: giving up one attempt early, or one attempt late
ShouldStopEarly(attempt_number) == attempt_number >= MaxAttempts - 1

ShouldStopLate(attempt_number) == attempt_number > MaxAttempts

ShouldStop(attempt_number) == attempt_number >= MaxAttempts

\* Mutant of WaitExponential: the next attempt follows at once
WaitNone(attempt_number) == 0

\* max(min, min(multiplier * 2 ** (attempt_number - 1), max))
WaitExponential(attempt_number) ==
    LET exp == WaitMultiplier * Pow2(attempt_number - 1)
        cut == IF exp < WaitMax THEN exp ELSE WaitMax
    IN  IF cut > WaitMin THEN cut ELSE WaitMin

\* reraise is not set: when the attempts are used up tenacity raises its own
\* RetryError `from` the exception of the attempt it has just seen fail
RetryError(attempt_number, exc) ==
    [kind |-> "RetryError",
     cause |-> [attempt_number |-> attempt_number, exception |-> exc]]

(***************************************************************************)
(* What one attempt of _post_payload can end with                          *)
(***************************************************************************)
Ok == [kind |-> "ok"]

TimeoutException == [kind |-> "TimeoutException"]

ConnectError == [kind |-> "ConnectError"]

\* response.raise_for_status() on a 4xx or 5xx status
HTTPStatusError(status_code) ==
    [kind |-> "HTTPStatusError", status_code |-> status_code]

UnicodeEncodeError == [kind |-> "UnicodeEncodeError"]

\* The statuses the upstream answers with besides 200
ErrorStatuses == {400, 503}

\* Connection error, timeout or 5xx status
Transient(exc) ==
    \/ exc.kind \in {"TimeoutException", "ConnectError"}
    \/ exc.kind = "HTTPStatusError" /\ exc.status_code >= 500

\* The exceptions an attempt can raise for this payload: encoding the payload
\* comes first and fails the same way every time; otherwise the network and
\* the upstream decide
Failures(p) ==
    IF Encodable(p) THEN environment.failures ELSE {UnicodeEncodeError}

\* What the network and the upstream can fail an attempt with
NetworkFailures ==
    {TimeoutException, ConnectError} \cup {HTTPStatusError(st) : st \in ErrorStatuses}

(***************************************************************************)
(* Inputs                                                                  *)
(***************************************************************************)
Settings ==
    [sicetac_username |-> Str(<<"user">>), sicetac_password |-> Str(<<"secret">>)]

Hours0 == FZero

Hours2 == DecToDouble(0, 2, 0)

BaseRequest ==
    [period |-> Str(<<"202401">>), configuration |-> Str(<<"3S3">>),
     origin |-> Str(<<"11001000">>), destination |-> Str(<<"50010000">>),
     cargo_type |-> None, unit_type |-> None,
     logistics_hours |-> Hours0, variables |-> None]

\* The requests of the calls: with and without logistics hours, and one whose
\* variables override holds a character outside ISO-8859-1
Requests ==
    { BaseRequest,
      [BaseRequest EXCEPT !.logistics_hours = Hours2],
      [BaseRequest EXCEPT !.variables = << <<"VALOR">>, <<"\\u20ac">> >>] }

\* The texts the upstream answers a successful exchange with
Responses ==
    { Envelope(SAMPLE_XML),
      Envelope(ErrorSample),
      Envelope(Doc(<<>>)),
      Envelope(Doc(<< E(<<"documento">>, None, << F("ruta", <<"106">>) >>) >>)),
      Envelope(NotXml),
      NotXml }

NoOutcome == [kind |-> "none"]

Environment ==
    [requests |-> Requests, responses |-> Responses, failures |-> NetworkFailures]

Calls == {"c1"}

Init ==
    /\ pc       = [c \in Calls |-> "idle"]
    /\ query    = [c \in Calls |-> None]
    /\ payload  = [c \in Calls |-> <<>>]
    /\ attempts = [c \in Calls |-> <<>>]
    /\ delays   = [c \in Calls |-> <<>>]
    /\ response = [c \in Calls |-> None]
    /\ outcome  = [c \in Calls |-> NoOutcome]
    /\ http     = [c \in Calls |-> 0]
    /\ body     = [c \in Calls |-> None]
    /\ settings = Settings
    /\ environment = Environment
    /\ clock = 0
    /\ middleware = None
    /\ cache_service = None
    /\ connection_manager = None
    /\ db = None
    /\ log = None

(***************************************************************************)
(* Calls are coroutines on one event loop.  The waits of a call are awaits *)
(* (await client.post, the wrapper's sleep between attempts): they give    *)
(* the loop to the other calls.                                            *)
(***************************************************************************)
\* Mutant of Runnable: the sleep between attempts holds the event loop
RunnableBlocking(c) == \A d \in DOMAIN pc \ {c} : pc[d] # "sleep"

\* The event loop can run the next step of call c
Runnable(c) == TRUE

RECURSIVE SumOver(_, _)
SumOver(f, S) ==
    IF S = {} THEN 0
    ELSE LET x == CHOOSE y \in S : TRUE IN f[x] + SumOver(f, S \ {x})

\* Mutant of AttemptNumber: one attempt counter for all the calls
AttemptNumberShared(c) == SumOver([d \in DOMAIN pc |-> Len(attempts[d])], DOMAIN pc) + 1

\* The number of the attempt in progress: the retry state belongs to the call
AttemptNumber(c) == Len(attempts[c]) + 1

(***************************************************************************)
(* create_quote -> fetch_quotes -> _build_payload                          *)
(***************************************************************************)
Build(c) ==
    /\ pc[c] = "idle"
    /\ Runnable(c)
    /\ \E q \in (IF query[c] = None THEN environment.requests ELSE {query[c]}) :
        /\ query' = [query EXCEPT ![c] = q]
        /\ payload' = [payload EXCEPT ![c] = BuildPayload(q, settings)]
    /\ pc' = [pc EXCEPT ![c] = "post"]
    /\ UNCHANGED <<attempts, delays, response, outcome, http, body, settings, environment, serviceVars>>

(***************************************************************************)
(* One attempt of _post_payload that returns response.text                 *)
(***************************************************************************)
PostOk(c) ==
    /\ pc[c] = "post"
    /\ Runnable(c)
    /\ Encodable(payload[c])
    /\ \E r \in environment.responses : response' = [response EXCEPT ![c] = r]
    /\ attempts' = [attempts EXCEPT ![c] = Append(@, Ok)]
    /\ pc' = [pc EXCEPT ![c] = "parse"]
    /\ UNCHANGED <<query, payload, delays, outcome, http, body, settings, environment, serviceVars>>

(***************************************************************************)
(* One attempt of _post_payload that raises; the retry wrapper decides     *)
(***************************************************************************)
PostFail(c) ==
    /\ pc[c] = "post"
    /\ Runnable(c)
    /\ \E exc \in Failures(payload[c]) :
        LET n == AttemptNumber(c) IN
        /\ attempts' = [attempts EXCEPT ![c] = Append(@, exc)]
        /\ IF ~ShouldRetry(exc)
           THEN /\ outcome' = [outcome EXCEPT ![c] = exc]
                /\ pc' = [pc EXCEPT ![c] = "done"]
                /\ UNCHANGED delays
           ELSE IF ShouldStop(n)
           THEN /\ outcome' = [outcome EXCEPT ![c] = RetryError(n, exc)]
                /\ pc' = [pc EXCEPT ![c] = "done"]
                /\ UNCHANGED delays
           ELSE /\ delays' = [delays EXCEPT ![c] = Append(@, WaitExponential(n))]
                /\ pc' = [pc EXCEPT ![c] = "sleep"]
                /\ UNCHANGED outcome
    /\ UNCHANGED <<query, payload, response, http, body, settings, environment, serviceVars>>

(***************************************************************************)
(* The backoff sleep ends: the next attempt starts                         *)
(***************************************************************************)
Wake(c) ==
    /\ pc[c] = "sleep"
    /\ Runnable(c)
    /\ pc' = [pc EXCEPT ![c] = "post"]
    /\ UNCHANGED <<query, payload, attempts, delays, response, outcome, http, body, settings, environment, serviceVars>>

(***************************************************************************)
(* fetch_quotes: _parse_response on the text the post returned             *)
(***************************************************************************)
\* Mutant of AfterParse: a response that does not decode is posted again
AfterParseRetry(result, attempt_number) ==
    IF result.kind = "HTTPException" /\ attempt_number < MaxAttempts
    THEN "post"
    ELSE "done"

\* `return self._parse_response(...)` stands outside the retry wrapper:
\* whatever it returns or raises ends fetch_quotes
AfterParse(result, attempt_number) == "done"

Parse(c) ==
    /\ pc[c] = "parse"
    /\ Runnable(c)
    /\ outcome' = [outcome EXCEPT ![c] = ParseResponse(response[c], query[c])]
    /\ pc' = [pc EXCEPT ![c] = AfterParse(outcome'[c], Len(attempts[c]))]
    /\ UNCHANGED <<query, payload, attempts, delays, response, http, body, settings, environment, serviceVars>>

(***************************************************************************)
(* create_quote: return the quotes or re-raise; the framework answers      *)
(***************************************************************************)
\* An HTTPException answers with its status; any other exception has no
\* handler and answers 500
ResponseStatus(result) ==
    IF result.kind = "return" THEN 200
    ELSE IF result.kind = "HTTPException" THEN result.status_code
    ELSE 500

Respond(c) ==
    /\ pc[c] = "done"
    /\ Runnable(c)
    /\ http' = [http EXCEPT ![c] = ResponseStatus(outcome[c])]
    /\ pc' = [pc EXCEPT ![c] = "responded"]
    /\ UNCHANGED <<query, payload, attempts, delays, response, outcome, body, settings, environment, serviceVars>>

Next ==
    \/ \E c \in DOMAIN pc : Build(c)
    \/ \E c \in DOMAIN pc : PostOk(c)
    \/ \E c \in DOMAIN pc : PostFail(c)
    \/ \E c \in DOMAIN pc : Wake(c)
    \/ \E c \in DOMAIN pc : Parse(c)
    \/ \E c \in DOMAIN pc : Respond(c)

Spec == Init /\ [][Next]_vars

(***************************************************************************)
(* Properties of the retry policy                                          *)
(***************************************************************************)
Finished(c) == pc[c] \in {"done", "responded"}

Last(seq) == seq[Len(seq)]

\* C1: a transient failure of attempt k < 3 (a timeout included) does not end
\* the call: the wrapper sleeps and posts again; no attempt follows a
\* successful one; and after two transient failures and a successful third
\* attempt fetch_quotes ends with what decoding the third attempt's response
\* gives, the two quotes for the sample response, and not with an error of
\* the transport.
C1_RetryThenSucceed ==
    \A c \in DOMAIN pc :
        /\ \A i \in 1..(Len(attempts[c]) - 1) : attempts[c][i] # Ok
        /\ (/\ Len(attempts[c]) \in 1..(MaxAttempts - 1)
            /\ Transient(Last(attempts[c])))
           => pc[c] \in {"sleep", "post"}
        /\ (/\ Finished(c)
            /\ Len(attempts[c]) = MaxAttempts
            /\ Transient(attempts[c][1])
            /\ Transient(attempts[c][2])
            /\ attempts[c][3] = Ok)
           => /\ outcome[c] = ParseResponse(response[c], query[c])
              /\ outcome[c].kind \in {"return", "HTTPException"}
              /\ response[c] = Envelope(SAMPLE_XML)
                 => outcome[c].kind = "return" /\ Len(outcome[c].value) = 2

C1_Witness ==
    \E c \in DOMAIN pc :
        /\ Finished(c)
        /\ attempts[c] = <<TimeoutException, HTTPStatusError(503), Ok>>
        /\ outcome[c].kind = "return"

\* C2: no call makes a 4th attempt, and a call all of whose attempts failed
\* with a transient failure has ended only if it made exactly 3 attempts, and
\* then it has raised.
C2_ExactlyThreeAttempts ==
    \A c \in DOMAIN pc :
        /\ Len(attempts[c]) <= 3
        /\ (/\ Finished(c)
            /\ \A i \in 1..Len(attempts[c]) : Transient(attempts[c][i]))
           => /\ Len(attempts[c]) = 3
              /\ outcome[c].kind \notin {"return", "none"}

C2_Witness ==
    \E c \in DOMAIN pc :
        /\ Finished(c)
        /\ attempts[c] = <<ConnectError, TimeoutException, HTTPStatusError(503)>>
        /\ outcome[c].kind = "RetryError"

\* C3 (as claimed): an attempt that fails with a 4xx status, or with a failure
\* that is not a connection error, a timeout or a 5xx status, is the last
\* attempt of its call: the call ends there, without backoff and without
\* another attempt.
C3_ClientErrorNotRetried ==
    \A c \in DOMAIN pc :
        \A i \in 1..Len(attempts[c]) :
            (attempts[c][i] # Ok /\ ~Transient(attempts[c][i]))
            => i = 1 /\ Len(attempts[c]) = 1 /\ Finished(c)

\* C4 (as claimed): when all three attempts have failed, the error raised has
\* the failure of the third attempt as its cause and the caller receives the
\* gateway-level status, the one a protocol error has (502).
C4_ExhaustedIsGatewayFailure ==
    \A c \in DOMAIN pc :
        (/\ Finished(c)
         /\ Len(attempts[c]) = MaxAttempts
         /\ \A i \in 1..MaxAttempts : Transient(attempts[c][i]))
        => /\ outcome[c].cause = [attempt_number |-> MaxAttempts,
                                  exception |-> attempts[c][MaxAttempts]]
           /\ ResponseStatus(outcome[c]) = HTTP_502_BAD_GATEWAY
           /\ pc[c] = "responded" => http[c] = HTTP_502_BAD_GATEWAY

\* C5: once an attempt has returned a response text, the attempts of that
\* call never change again, whatever decoding the text gives.
C5_NoAttemptAfterResponse ==
    [][\A c \in DOMAIN pc : response[c] # None => attempts'[c] = attempts[c]]_vars

C5_Witness ==
    \E c \in DOMAIN pc :
        /\ Finished(c)
        /\ response[c] = Envelope(ErrorSample)
        /\ Len(attempts[c]) = 1
        /\ outcome[c].kind = "HTTPException"
        /\ outcome[c].status_code = HTTP_404_NOT_FOUND

(***************************************************************************)
(* Decoding on its own: the call stands where the post has just returned    *)
(* a response text, and the text ranges over business documents            *)
(***************************************************************************)
MaxTop == 3

\* All sequences over S of length at most n
RECURSIVE SeqsUpTo(_, _)
SeqsUpTo(S, n) ==
    IF n = 0 THEN {<<>>}
    ELSE LET shorter == SeqsUpTo(S, n - 1)
         IN  shorter \cup {Append(q, x) : q \in {r \in shorter : Len(r) = n - 1}, x \in S}

ErrorTexts == {<<>>, <<" ">>, <<" ", "NO", " ", "INFO", "\n">>}

ErrorElems == {F("ErrorMSG", t) : t \in ErrorTexts}

\* Documents: priced with an hour value; priced with every other number
\* unusable, two children whose tags differ in case only and one without
\* text; valor unparsable; valor missing; valor empty; priced under an
\* upper-case tag with surrounding blanks and a negative hour value
DocumentElems ==
    { E(<<"documento">>, None, << F("ruta", <<"106">>), F("valor", <<"1", "0", "0">>),
                                  F("valorhora", <<"2", ".", "5">>) >>),
      E(<<"documento">>, None, << F("ruta", <<"106">>), F("RUTA", <<"200">>),
                                  F("valor", <<"7">>), F("valorhora", <<"x">>),
                                  F("valortonelada", <<"1", ".", "2", ".", "3">>),
                                  F("distancia", <<>>) >>),
      E(<<"documento">>, None, << F("valor", <<"x">>), F("valorhora", <<"3">>) >>),
      E(<<"documento">>, None, << F("ruta", <<"107">>) >>),
      E(<<"documento">>, None, << F("valor", <<>>), F("valorhora", <<"3">>) >>),
      E(<<"documento">>, None, << F("VALOR", <<" ", "4", "2", " ">>),
                                  F("valorhora", <<"-", "3">>) >>) }

TopElems == ErrorElems \cup DocumentElems

ParseInputs ==
    {Envelope(Doc(top)) : top \in SeqsUpTo(TopElems, MaxTop)}
    \cup {Envelope(ErrorSample), Envelope(SAMPLE_XML), Envelope(NotXml), Envelope(None)}

ParseRequests ==
    {BaseRequest, [BaseRequest EXCEPT !.logistics_hours = Hours2]}

InitParse ==
    /\ pc = [c \in Calls |-> "parse"]
    /\ query \in [Calls -> ParseRequests]
    /\ payload = [c \in Calls |-> BuildPayload(query[c], Settings)]
    /\ attempts = [c \in Calls |-> <<Ok>>]
    /\ delays = [c \in Calls |-> <<>>]
    /\ response \in [Calls -> ParseInputs]
    /\ outcome = [c \in Calls |-> NoOutcome]
    /\ http = [c \in Calls |-> 0]
    /\ body = [c \in Calls |-> None]
    /\ settings = Settings
    /\ environment = Environment
    /\ clock = 0
    /\ middleware = None
    /\ cache_service = None
    /\ connection_manager = None
    /\ db = None
    /\ log = None

NextParse ==
    \/ \E c \in DOMAIN pc : Parse(c)
    \/ \E c \in DOMAIN pc : Respond(c)

SpecParse == InitParse /\ [][NextParse]_vars

(***************************************************************************)
(* Properties of decoding, stated on the response as it was sent           *)
(***************************************************************************)
\* The return text of a response with the service's envelope
SentReturn(resp) == resp.xml.root.children[1].children[1].children[1].text

\* The response carries a well-formed business document
SentDoc(resp) ==
    /\ "xml" \in DOMAIN resp /\ resp.xml.wf
    /\ "xml" \in DOMAIN SentReturn(resp) /\ SentReturn(resp).xml.wf

\* The top-level elements of the business document
SentTop(resp) == SentReturn(resp).xml.root.children

\* m is t without its leading and trailing whitespace
IsTrimOf(m, t) ==
    /\ (m # <<>> => m[1] \notin Whitespace /\ m[Len(m)] \notin Whitespace)
    /\ \E i \in 0..Len(t) :
        /\ i + Len(m) <= Len(t)
        /\ SubSeq(t, i + 1, i + Len(m)) = m
        /\ \A j \in (1..i) \cup ((i + Len(m) + 1)..Len(t)) : t[j] \in Whitespace

\* The indices of the top-level ErrorMSG elements
SentErrors(resp) ==
    {i \in 1..Len(SentTop(resp)) : SentTop(resp)[i].local = <<"ErrorMSG">>}

\* The business document's ErrorMSG (the first, if there are several) has text
SentErrorText(resp) ==
    IF SentErrors(resp) = {} THEN None
    ELSE SentTop(resp)[CHOOSE i \in SentErrors(resp) :
                           \A j \in SentErrors(resp) : i <= j].text

\* C6: when the business document's top-level ErrorMSG has text T, decoding
\* raises the not-found error (404) whose message is T without its leading and
\* trailing whitespace; for the service's NO SE ENCONTRO INFORMACION document
\* the message is exactly that text.
C6_BusinessErrorMessage ==
    \A c \in DOMAIN pc :
        (Finished(c) /\ SentDoc(response[c]))
        => /\ Truthy(SentErrorText(response[c]))
              => /\ outcome[c].kind = "HTTPException"
                 /\ outcome[c].status_code = HTTP_404_NOT_FOUND
                 /\ IsTrimOf(outcome[c].detail.s, SentErrorText(response[c]).s)
           /\ response[c] = Envelope(ErrorSample)
              => outcome[c] = HTTPException(HTTP_404_NOT_FOUND,
                     Str(<<"NO", " ", "SE", " ", "ENCONTRO", " ", "INFORMACION">>))

C6_Witness ==
    \E c \in DOMAIN pc :
        /\ Finished(c)
        /\ SentDoc(response[c])
        /\ SentErrorText(response[c]) = Str(<<" ", "NO", " ", "INFO", "\n">>)
        /\ outcome[c].detail = Str(<<"NO", " ", "INFO">>)

\* The text a documento carries for a field: that of its last child with that
\* name in lower case, without surrounding whitespace; None without such child
SentField(d, name) ==
    LET I == {i \in 1..Len(d.children) : Lower(d.children[i].local) = name}
        l == CHOOSE i \in I : \A j \in I : j <= i
    IN  IF I = {} THEN None
        ELSE IF d.children[l].text = None THEN Str(<<>>)
        ELSE Str(Strip(d.children[l].text.s))

\* float() accepts the field
Parsable(v) == v # None /\ PyFloat(v.s).ok

SentNumber(d, name) ==
    IF Parsable(SentField(d, name)) THEN PyFloat(SentField(d, name).s).value ELSE None

\* The documento elements with a parsable valor, in the order sent
SentPriced(resp) ==
    SelectSeq(SentTop(resp),
              LAMBDA d : d.local = <<"documento">> /\ Parsable(SentField(d, <<"valor">>)))

\* C7: unless the document carries a business error, decoding returns exactly
\* one result per documento with a parsable valor, in the order sent, each
\* with that documento's mobilization value and route, and with None for
\* every other number that is absent or unparsable; with no such documento no
\* result is returned.
C7_OneResultPerPricedDocument ==
    \A c \in DOMAIN pc :
        (Finished(c) /\ SentDoc(response[c]) /\ ~Truthy(SentErrorText(response[c])))
        => LET priced == SentPriced(response[c])
           IN  IF priced = <<>>
               THEN outcome[c].kind = "HTTPException"
               ELSE /\ outcome[c].kind = "return"
                    /\ Len(outcome[c].value) = Len(priced)
                    /\ \A i \in 1..Len(priced) :
                        LET q == outcome[c].value[i]
                            d == priced[i]
                        IN  /\ q.mobilization_value = SentNumber(d, <<"valor">>)
                            /\ q.route_code = SentField(d, <<"ruta">>)
                            /\ q.hour_value = SentNumber(d, <<"valorhora">>)
                            /\ q.ton_value = SentNumber(d, <<"valortonelada">>)
                            /\ q.distance_km = SentNumber(d, <<"distancia">>)

\* Three documents were sent, the first and the last priced, the last without
\* a usable hour value: two results, in that order
C7_Witness ==
    \E c \in DOMAIN pc :
        /\ Finished(c)
        /\ SentDoc(response[c])
        /\ Len(SentTop(response[c])) = 3
        /\ SentField(SentTop(response[c])[2], <<"valor">>) = Str(<<"x">>)
        /\ Len(SentPriced(response[c])) = 2
        /\ outcome[c].kind = "return"
        /\ Len(outcome[c].value) = 2
        /\ outcome[c].value[1].route_code = Str(<<"106">>)
        /\ outcome[c].value[2].hour_value = None
        /\ outcome[c].value[2].ton_value = None

\* C8: every result has minimum_payable = mobilization_value + hour_value *
\* logistics_hours, or = mobilization_value without an hour value, hence at
\* least mobilization_value when the hour value is not negative; and the
\* service's sample document with two logistics hours gives 2803544.96 and
\* 2554803.45, in that order.
C8_MinimumPayable ==
    \A c \in DOMAIN pc :
        (Finished(c) /\ outcome[c].kind = "return")
        => /\ \A i \in 1..Len(outcome[c].value) :
                LET q == outcome[c].value[i] IN
                /\ q.hour_value = None
                   => FEq(q.minimum_payable, q.mobilization_value)
                /\ q.hour_value # None
                   => FEq(q.minimum_payable,
                          FAdd(q.mobilization_value,
                               FMul(q.hour_value, query[c].logistics_hours)))
                /\ (q.hour_value # None /\ FLe(FZero, q.hour_value))
                   => FLe(q.mobilization_value, q.minimum_payable)
           /\ (response[c] = Envelope(SAMPLE_XML) /\ query[c].logistics_hours = Hours2)
              => /\ Len(outcome[c].value) = 2
                 /\ FEq(outcome[c].value[1].minimum_payable, DecToDouble(0, 280354496, 2))
                 /\ FEq(outcome[c].value[2].minimum_payable, DecToDouble(0, 255480345, 2))

(***************************************************************************)
(* Building on its own: the credentials of the configuration range over    *)
(* texts with markup characters and entity references                      *)
(***************************************************************************)
MaxLen == 3

EscAlphabet == {"<", ">", "\"", "&", ";", "lt", "amp", "x"}

EscSettings ==
    {[Settings EXCEPT !.sicetac_password = Str(p)] : p \in SeqsUpTo(EscAlphabet, MaxLen)}

InitEscape ==
    /\ pc       = [c \in Calls |-> "idle"]
    /\ query    = [c \in Calls |-> None]
    /\ payload  = [c \in Calls |-> <<>>]
    /\ attempts = [c \in Calls |-> <<>>]
    /\ delays   = [c \in Calls |-> <<>>]
    /\ response = [c \in Calls |-> None]
    /\ outcome  = [c \in Calls |-> NoOutcome]
    /\ http     = [c \in Calls |-> 0]
    /\ body     = [c \in Calls |-> None]
    /\ settings \in EscSettings
    /\ environment = Environment
    /\ clock = 0
    /\ middleware = None
    /\ cache_service = None
    /\ connection_manager = None
    /\ db = None
    /\ log = None

NextEscape == \E c \in DOMAIN pc : Build(c)

SpecEscape == InitEscape /\ [][NextEscape]_vars

\* What the receiver of the payload reads as the text of the Request
\* element: every predefined entity reference replaced by its character.
\* References cannot overlap, so those found at any position are those a
\* pass from the left finds.
XmlUnescape(s) ==
    LET starts == {i \in 1..(Len(s) - 2) :
                      /\ s[i] = "&"
                      /\ s[i + 1] \in {"lt", "gt", "quot", "amp"}
                      /\ s[i + 2] = ";"}
        kept   == SelectSeq([i \in 1..Len(s) |-> i],
                            LAMBDA i : (i - 1) \notin starts /\ (i - 2) \notin starts)
    IN  [k \in 1..Len(kept) |->
            IF kept[k] \notin starts THEN s[kept[k]]
            ELSE CASE s[kept[k] + 1] = "lt"   -> "<"
                   [] s[kept[k] + 1] = "gt"   -> ">"
                   [] s[kept[k] + 1] = "quot" -> "\""
                   [] s[kept[k] + 1] = "amp"  -> "&"]

\* The escaped text of the Request element inside a payload
SentRequest(p) == SubSeq(p, 2, Len(p) - 1)

\* C9: unescaping the escaped inner document that the payload carries gives
\* back the inner document exactly, whatever the credentials contain.
C9_EscapingRoundTrip ==
    \A c \in DOMAIN pc :
        pc[c] # "idle"
        => XmlUnescape(SentRequest(payload[c])) = InnerXml(query[c], settings)

(***************************************************************************)
(* Decoding the same structure under different namespace bindings: call    *)
(* "c1" receives the service's envelope, call "c2" a variant of it         *)
(***************************************************************************)
EnvBindings ==
    { <<"SOAP-ENV", SoapEnvUri>>, <<"soap", SoapEnvUri>>, <<"", SoapEnvUri>>, <<"", <<>> >> }

RespBindings == { <<"NS1", Ns1Uri>>, <<"m", Ns1Uri>>, <<"", <<>> >> }

RetBindings == { <<"", <<>> >>, <<"", SoapEnvUri>> }

ReturnTexts == {SAMPLE_XML, ErrorSample, Doc(<<>>), NotXml, None}

InitNs ==
    /\ pc = [c \in {"c1", "c2"} |-> "parse"]
    /\ \E q \in ParseRequests : query = [c \in {"c1", "c2"} |-> q]
    /\ payload = [c \in {"c1", "c2"} |-> BuildPayload(query[c], Settings)]
    /\ attempts = [c \in {"c1", "c2"} |-> <<Ok>>]
    /\ delays = [c \in {"c1", "c2"} |-> <<>>]
    /\ \E t \in ReturnTexts, env \in EnvBindings, resp \in RespBindings, ret \in RetBindings :
        response = [c \in {"c1", "c2"} |->
                        IF c = "c1" THEN Envelope(t) ELSE EnvelopeAs(env, resp, ret, t)]
    /\ outcome = [c \in {"c1", "c2"} |-> NoOutcome]
    /\ http = [c \in {"c1", "c2"} |-> 0]
    /\ body = [c \in {"c1", "c2"} |-> None]
    /\ settings = Settings
    /\ environment = Environment
    /\ clock = 0
    /\ middleware = None
    /\ cache_service = None
    /\ connection_manager = None
    /\ db = None
    /\ log = None

NextNs ==
    \/ \E c \in DOMAIN pc : Parse(c)
    \/ \E c \in DOMAIN pc : Respond(c)

SpecNs == InitNs /\ [][NextNs]_vars

\* C10: a response with the service's SOAP-ENV envelope and one with the
\* same structure under another prefix, a default namespace or no namespace
\* decode to the same outcome: the same quotes or the same error.
C10_NamespaceTolerance ==
    (Finished("c1") /\ Finished("c2")) => outcome["c1"] = outcome["c2"]

C10_Witness ==
    /\ Finished("c1") /\ Finished("c2")
    /\ response["c2"] = EnvelopeAs(<<"", <<>> >>, <<"m", Ns1Uri>>, <<"", <<>> >>, SAMPLE_XML)
    /\ outcome["c1"].kind = "return"
    /\ Len(outcome["c1"].value) = 2
    /\ outcome["c2"] = outcome["c1"]

(***************************************************************************)
(* All or nothing, and the two not-found cases                             *)
(***************************************************************************)
\* The documento elements of the business document, in the order sent
SentDocuments(resp) == SelectSeq(SentTop(resp), LAMBDA d : d.local = <<"documento">>)

\* C11: a call ends with an error or with a non-empty list that holds one
\* result for every priced documento of the response, none missing and none
\* added; it never ends with an empty list.
C11_AllOrError ==
    \A c \in DOMAIN pc :
        Finished(c)
        => \/ outcome[c].kind \in {"HTTPException", "RetryError"}
           \/ /\ outcome[c].kind = "return"
              /\ outcome[c].value # <<>>
              /\ SentDoc(response[c])
              /\ Len(outcome[c].value) = Len(SentPriced(response[c]))
              /\ \A i \in 1..Len(outcome[c].value) :
                    outcome[c].value[i].mobilization_value
                        = SentNumber(SentPriced(response[c])[i], <<"valor">>)

\* Three priced documents were sent and three results came back
C11_Witness ==
    \E c \in DOMAIN pc :
        /\ Finished(c)
        /\ SentDoc(response[c])
        /\ Len(SentPriced(response[c])) = 3
        /\ outcome[c].kind = "return"
        /\ Len(outcome[c].value) = 3

NoQuotesMessage == Str(<<"Sicetac response did not include any quotes">>)

NoValuesMessage ==
    Str(<<"Sicetac did not return monetary values for the requested parameters">>)

\* C12: for a business document without business error, the not-found error
\* carries the "no quotes" message exactly when the document has no
\* documento, and the "no monetary values" message exactly when it has a
\* documento but none with a usable valor; both are not-found (404).
C12_NotFoundMessages ==
    \A c \in DOMAIN pc :
        (Finished(c) /\ SentDoc(response[c]) /\ ~Truthy(SentErrorText(response[c])))
        => LET none   == SentDocuments(response[c]) = <<>>
               unpriced == ~none /\ SentPriced(response[c]) = <<>>
           IN  /\ none <=> outcome[c] = HTTPException(HTTP_404_NOT_FOUND, NoQuotesMessage)
               /\ unpriced <=> outcome[c] = HTTPException(HTTP_404_NOT_FOUND, NoValuesMessage)
               /\ (outcome[c].kind = "HTTPException"
                   => outcome[c].detail \in {NoQuotesMessage, NoValuesMessage})

\* A document with documento elements, none priced, gave the second message
C12_Witness ==
    \E c \in DOMAIN pc :
        /\ Finished(c)
        /\ SentDoc(response[c])
        /\ Len(SentDocuments(response[c])) = 2
        /\ SentPriced(response[c]) = <<>>
        /\ outcome[c].detail = NoValuesMessage

(***************************************************************************)
(* Decoding envelopes of other shapes: element names that contain a target *)
(* name, differ from it in case, or are something else; a Header before    *)
(* the body, in the SOAP namespace or in one whose URI contains "Body".    *)
(* A name is a sequence of symbols: MessageBody is <<"Message", "Body">>.  *)
(***************************************************************************)
BodyNames == { <<"Body">>, <<"Message", "Body">>, <<"body">> }

RespNames ==
    { <<"AtenderMensajeRNDCResponse">>, <<"AtenderMensajeRNDCResponse", "Type">>, <<"Fault">> }

RetNames == { <<"return">>, <<"return", "Code">>, <<"RETURN">>, <<"result">> }

BodyPartsUri == <<"urn:", "Body", "Parts">>

Headers ==
    { <<>>,
      << NsE("SOAP-ENV", SoapEnvUri, <<"Header">>, None, <<>>) >>,
      << NsE("h", BodyPartsUri, <<"Header">>, None, <<>>) >> }

EnvelopeOf(header, body_name, resp_name, ret_name, return_text) ==
    XmlStr([wf |-> TRUE, root |->
        NsE("SOAP-ENV", SoapEnvUri, <<"Envelope">>, None,
            header \o <<
            NsE("SOAP-ENV", SoapEnvUri, body_name, None, <<
                NsE("NS1", Ns1Uri, resp_name, None, <<
                    E(ret_name, return_text, <<>>) >>) >>) >>)])

EnvInputs ==
    { EnvelopeOf(h, b, r, t, x) :
        h \in Headers, b \in BodyNames, r \in RespNames, t \in RetNames,
        x \in {SAMPLE_XML, ErrorSample, NotXml, None} }
    \cup {NotXml}

InitEnv ==
    /\ pc = [c \in Calls |-> "parse"]
    /\ query = [c \in Calls |-> [BaseRequest EXCEPT !.logistics_hours = Hours2]]
    /\ payload = [c \in Calls |-> BuildPayload(query[c], Settings)]
    /\ attempts = [c \in Calls |-> <<Ok>>]
    /\ delays = [c \in Calls |-> <<>>]
    /\ response \in [Calls -> EnvInputs]
    /\ outcome = [c \in Calls |-> NoOutcome]
    /\ http = [c \in Calls |-> 0]
    /\ body = [c \in Calls |-> None]
    /\ settings = Settings
    /\ environment = Environment
    /\ clock = 0
    /\ middleware = None
    /\ cache_service = None
    /\ connection_manager = None
    /\ db = None
    /\ log = None

NextEnv ==
    \/ \E c \in DOMAIN pc : Parse(c)
    \/ \E c \in DOMAIN pc : Respond(c)

SpecEnv == InitEnv /\ [][NextEnv]_vars

\* The first of the elements es whose local name is exactly name, or None
ExactFirst(es, name) ==
    LET found == SelectSeq(es, LAMBDA e : e.local = name)
    IN  IF found = <<>> THEN None ELSE Head(found)

\* The body, the response element and the return element of a well-formed
\* envelope as sent, each selected by its exact local name
SentBody(resp) == ExactFirst(resp.xml.root.children, <<"Body">>)

SentResponse(resp) ==
    IF SentBody(resp) = None THEN None
    ELSE ExactFirst(SentBody(resp).children, <<"AtenderMensajeRNDCResponse">>)

SentReturnElem(resp) ==
    IF SentResponse(resp) = None THEN None
    ELSE ExactFirst(IterAll(SentResponse(resp).children), <<"return">>)

\* The response is malformed, or lacks the body, the response element or a
\* return element with text, or its return text is not a well-formed document
Lacking(resp) ==
    \/ ~("xml" \in DOMAIN resp /\ resp.xml.wf)
    \/ SentReturnElem(resp) = None
    \/ ~("xml" \in DOMAIN SentReturnElem(resp).text /\ SentReturnElem(resp).text.xml.wf)

\* C13: a response that is malformed, or lacks the body, the response
\* element or a return element with text, or whose inner document is
\* malformed, makes decoding fail with the gateway-level error (502): it
\* never gives quotes and never any other error.
C13_ProtocolError ==
    \A c \in DOMAIN pc :
        (Finished(c) /\ Lacking(response[c]))
        => /\ outcome[c].kind = "HTTPException"
           /\ outcome[c].status_code = HTTP_502_BAD_GATEWAY

(***************************************************************************)
(* Two calls in flight with the same query, against an upstream that       *)
(* answers with quotes or a business error, times out or refuses           *)
(***************************************************************************)
PairEnvironment ==
    [requests  |-> {[BaseRequest EXCEPT !.logistics_hours = Hours2]},
     responses |-> {Envelope(SAMPLE_XML), Envelope(ErrorSample)},
     failures  |-> {TimeoutException, HTTPStatusError(400)}]

InitPair ==
    /\ pc       = [c \in {"c1", "c2"} |-> "idle"]
    /\ query    = [c \in {"c1", "c2"} |-> None]
    /\ payload  = [c \in {"c1", "c2"} |-> <<>>]
    /\ attempts = [c \in {"c1", "c2"} |-> <<>>]
    /\ delays   = [c \in {"c1", "c2"} |-> <<>>]
    /\ response = [c \in {"c1", "c2"} |-> None]
    /\ outcome  = [c \in {"c1", "c2"} |-> NoOutcome]
    /\ http     = [c \in {"c1", "c2"} |-> 0]
    /\ body     = [c \in {"c1", "c2"} |-> None]
    /\ settings = Settings
    /\ environment = PairEnvironment
    /\ clock = 0
    /\ middleware = None
    /\ cache_service = None
    /\ connection_manager = None
    /\ db = None
    /\ log = None

NextPair ==
    \/ \E c \in DOMAIN pc : Build(c)
    \/ \E c \in DOMAIN pc : PostOk(c)
    \/ \E c \in DOMAIN pc : PostFail(c)
    \/ \E c \in DOMAIN pc : Wake(c)
    \/ \E c \in DOMAIN pc : Parse(c)
    \/ \E c \in DOMAIN pc : Respond(c)

SpecPair == InitPair /\ [][NextPair]_vars

\* Everything that belongs to one call
CallState(c) ==
    <<pc[c], query[c], payload[c], attempts[c], delays[c], response[c], outcome[c], http[c]>>

\* What the call gives when it runs alone and meets these attempts and this
\* response: the decoded response after a successful attempt, else the
\* error of the retry wrapper after the third failure
OutcomeAlone(c) ==
    IF Last(attempts[c]) = Ok
    THEN IF InnerRoot(response[c]).kind = "return"
         THEN Extract(InnerRoot(response[c]).value, query[c])
         ELSE InnerRoot(response[c])
    ELSE [kind |-> "RetryError",
          cause |-> [attempt_number |-> MaxAttempts, exception |-> attempts[c][MaxAttempts]]]

\* C14: calls in flight share nothing that changes: a step changes the
\* state of one call only; every finished call has made its own attempts,
\* counted on its own (a failed call has exactly three, whatever the other
\* call did), and its outcome is the one it has when it runs alone with the
\* same attempts and response.
C14_IndependentCalls ==
    /\ [](\A c \in DOMAIN pc :
            Finished(c)
            => /\ Len(attempts[c]) \in 1..MaxAttempts
               /\ \A i \in 1..(Len(attempts[c]) - 1) : attempts[c][i] # Ok
               /\ Last(attempts[c]) # Ok => Len(attempts[c]) = MaxAttempts
               /\ outcome[c] = OutcomeAlone(c))
    /\ [][\A c, d \in DOMAIN pc :
            (c # d /\ CallState(c)' # CallState(c)) => CallState(d)' = CallState(d)]_vars

\* Both calls asked the same, each made its own exchange: one needed three
\* attempts, the other one, and both hold the same quotes
C14_Witness ==
    /\ Finished("c1") /\ Finished("c2")
    /\ query["c1"] = query["c2"]
    /\ Len(attempts["c1"]) = 3
    /\ Len(attempts["c2"]) = 1
    /\ outcome["c1"].kind = "return"
    /\ outcome["c2"] = outcome["c1"]

\* The next step of call d can be taken: the conjuncts of its action that
\* do not assign a variable hold (the event loop can run it; an attempt has
\* an answer or a failure to end with; a call to start has a request)
CanStep(d) ==
    /\ Runnable(d)
    /\ pc[d] = "idle" => environment.requests # {}
    /\ pc[d] = "post" => \/ Encodable(payload[d]) /\ environment.responses # {}
                         \/ Failures(payload[d]) # {}

C16_StagesInOrder ==
    \A c \in DOMAIN pc :
        /\ attempts[c] # <<>> => payload[c] = BuildPayload(query[c], settings)
        /\ response[c] # None => attempts[c] # <<>> /\ Last(attempts[c]) = Ok
        /\ outcome[c] # NoOutcome
           => IF response[c] = None
              THEN /\ Last(attempts[c]) # Ok
                   /\ outcome[c] = [kind |-> "RetryError",
                                    cause |-> [attempt_number |-> Len(attempts[c]),
                                               exception |-> Last(attempts[c])]]
              ELSE LET decoded == InnerRoot(response[c]) IN
                   outcome[c] = IF decoded.kind = "return"
                                THEN Extract(decoded.value, query[c])
                                ELSE decoded
        /\ Finished(c) => outcome[c] # NoOutcome
        /\ pc[c] = "responded"
           => http[c] = CASE outcome[c].kind = "return" -> 200
                          [] outcome[c].kind = "HTTPException" -> outcome[c].status_code
                          [] OTHER -> 500

\* The third attempt succeeded, its response did not decode: the caller got
\* the decoder's 502
C16_Witness ==
    \E c \in DOMAIN pc :
        /\ pc[c] = "responded"
        /\ Len(attempts[c]) = 3
        /\ response[c] = Envelope(NotXml)
        /\ outcome[c].kind = "HTTPException"
        /\ http[c] = HTTP_502_BAD_GATEWAY

(***************************************************************************)
(* QuoteRequest (app/models/quotes.py): the validators of the request body *)
(***************************************************************************)
_ALLOWED_CONFIGS ==
    { <<"2">>, <<"3">>, <<"2", "S", "2">>, <<"2", "S", "3">>, <<"3", "S", "2">>,
      <<"3", "S", "3">> }

_ALLOWED_CARGO_TYPES ==
    { <<"GENERAL">>, <<"CONTENEDOR">>, <<"CARGA", " ", "REFRIGERADA">>,
      <<"GRANEL", " ", "S\\u00d3LIDO">> }

_ALLOWED_UNIT_TYPES == { <<"ESTACAS">>, <<"TRAYLER">>, <<"TERMOKING">> }

\* The characters of the model for which str.isdigit() holds: the ASCII
\* digits and ARABIC-INDIC DIGIT THREE
DigitChars == Digits \cup {"\\u0663"}

\* value.isdigit(): not empty, every character a digit
IsDigit(value) == value # <<>> /\ \A i \in 1..Len(value) : value[i] \in DigitChars

\* value.endswith("000")
EndsWith000(value) ==
    Len(value) >= 3 /\ SubSeq(value, Len(value) - 2, Len(value)) = <<"0", "0", "0">>

\* validate_period does not raise
validate_period(value) == Len(value) = 6 /\ IsDigit(value)

\* normalise_configuration does not raise
normalise_configuration(value) == Upper(value) \in _ALLOWED_CONFIGS

\* validate_divipola does not raise
validate_divipola(value) == Len(value) = 8 /\ IsDigit(value) /\ EndsWith000(value)

\* validate_cargo does not raise
validate_cargo(value) == value = None \/ Upper(value.s) \in _ALLOWED_CARGO_TYPES

\* validate_unit does not raise
validate_unit(value) == value = None \/ Upper(value.s) \in _ALLOWED_UNIT_TYPES

\* Field(ge=0)
validate_hours(value) == FLe(FZero, value)

\* ensure_uppercase: [item.strip().upper() for item in value]
ensure_uppercase(value) ==
    IF value = None THEN None ELSE [i \in 1..Len(value) |-> Upper(Strip(value[i]))]

\* No validator raises
Valid(b) ==
    /\ validate_period(b.period.s)
    /\ normalise_configuration(b.configuration.s)
    /\ validate_divipola(b.origin.s)
    /\ validate_divipola(b.destination.s)
    /\ validate_cargo(b.cargo_type)
    /\ validate_unit(b.unit_type)
    /\ validate_hours(b.logistics_hours)

\* The QuoteRequest built from a body that passed
QuoteRequestOf(b) ==
    [period          |-> b.period,
     configuration   |-> Str(Upper(b.configuration.s)),
     origin          |-> b.origin,
     destination     |-> b.destination,
     cargo_type      |-> IF b.cargo_type = None THEN None ELSE Str(Upper(b.cargo_type.s)),
     unit_type       |-> IF b.unit_type = None THEN None ELSE Str(Upper(b.unit_type.s)),
     logistics_hours |-> b.logistics_hours,
     variables       |-> ensure_uppercase(b.variables)]

ValidationError == [kind |-> "ValidationError"]

Chars6 == <<"2", "0", "2", "4", "0", "1">>

Bodies ==
    [period          : {Str(Chars6), Str(SubSeq(Chars6, 1, 5)), Str(Chars6 \o <<"0">>),
                        Str(<<"2", "0", "2", "4", "0", "x">>),
                        Str(<<"2", "0", "2", "4", "0", "\\u0663">>)},
     configuration   : {Str(<<"3", "S", "3">>), Str(<<"3", "s", "3">>), Str(<<"1", "S", "1">>),
                        Str(<<"2">>)},
     origin          : {Str(<<"1", "1", "0", "0", "1", "0", "0", "0">>),
                        Str(<<"1", "1", "0", "0", "1", "0", "0", "1">>),
                        Str(<<"1", "1", "0", "0", "0", "0", "0">>),
                        Str(<<"1", "1", "x", "0", "1", "0", "0", "0">>)},
     destination     : {Str(<<"5", "0", "0", "1", "0", "0", "0", "0">>),
                        Str(<<"5", "0", "0", "1", "0", "0", "0", "0", "0">>)},
     cargo_type      : {None, Str(<<"General">>), Str(<<"Liquids">>)},
     unit_type       : {None, Str(<<"Estacas">>)},
     logistics_hours : {Hours0, Hours2, DecToDouble(1, 1, 0)},
     variables       : {None, << <<" ", "valor", " ">>, <<"RUTA">> >>}]

InitValidate ==
    /\ pc       = [c \in Calls |-> "validate"]
    /\ query    = [c \in Calls |-> None]
    /\ payload  = [c \in Calls |-> <<>>]
    /\ attempts = [c \in Calls |-> <<>>]
    /\ delays   = [c \in Calls |-> <<>>]
    /\ response = [c \in Calls |-> None]
    /\ outcome  = [c \in Calls |-> NoOutcome]
    /\ http     = [c \in Calls |-> 0]
    /\ body     \in [Calls -> Bodies]
    /\ settings = Settings
    /\ environment = Environment
    /\ clock = 0
    /\ middleware = None
    /\ cache_service = None
    /\ connection_manager = None
    /\ db = None
    /\ log = None

(***************************************************************************)
(* The route's argument quote_request: QuoteRequest is built from the body *)
(***************************************************************************)
Validate(c) ==
    /\ pc[c] = "validate"
    /\ Runnable(c)
    /\ IF Valid(body[c])
       THEN /\ query' = [query EXCEPT ![c] = QuoteRequestOf(body[c])]
            /\ pc' = [pc EXCEPT ![c] = "idle"]
            /\ UNCHANGED outcome
       ELSE /\ outcome' = [outcome EXCEPT ![c] = ValidationError]
            /\ pc' = [pc EXCEPT ![c] = "done"]
            /\ UNCHANGED query
    /\ UNCHANGED <<payload, attempts, delays, response, http, body, settings, environment, serviceVars>>

NextValidate == \E c \in DOMAIN pc : Validate(c)

SpecValidate == InitValidate /\ [][NextValidate]_vars

\* The conditions on a body, in the words of the specification
SixDigits(v) == Len(v) = 6 /\ \A i \in 1..6 : v[i] \in Digits

EightDigitsEnding000(v) ==
    /\ Len(v) = 8
    /\ \A i \in 1..8 : v[i] \in Digits
    /\ v[6] = "0" /\ v[7] = "0" /\ v[8] = "0"

KnownConfiguration(v) ==
    \E k \in _ALLOWED_CONFIGS :
        /\ Len(k) = Len(v)
        /\ \A i \in 1..Len(k) : v[i] = k[i] \/ (k[i] = "S" /\ v[i] = "s")

Conditions(b) ==
    /\ SixDigits(b.period.s)
    /\ KnownConfiguration(b.configuration.s)
    /\ EightDigitsEnding000(b.origin.s)
    /\ EightDigitsEnding000(b.destination.s)
    /\ b.logistics_hours.s = 0

Accepted(c) == pc[c] = "idle" /\ query[c] # None

Rejected(c) == pc[c] = "done" /\ outcome[c] = ValidationError

\* C17: a body that misses a condition is rejected, and an
\* accepted request holds the configuration in upper case and every other
\* field as it was given.
C17_AsGiven ==
    \A c \in DOMAIN pc :
        /\ (pc[c] # "validate" /\ ~Conditions(body[c])) => Rejected(c)
        /\ Accepted(c)
           => /\ query[c].configuration = Str(Upper(body[c].configuration.s))
              /\ \A f \in DOMAIN body[c] \ {"configuration"} : query[c][f] = body[c][f]

\* A body whose period ends in a digit that is not one of 0..9 was accepted
C17_ForeignDigitAccepted ==
    \E c \in DOMAIN pc :
        /\ Accepted(c)
        /\ body[c].period = Str(<<"2", "0", "2", "4", "0", "\\u0663">>)

\* C18: the delay before the second and before the third attempt lies in
\* the window of 1 s to 10 s, the second is not shorter than the first, each
\* delay follows an attempt that failed, and once the last attempt is over,
\* failed or not, there is one delay fewer than attempts.
C18_BackoffDelays ==
    \A c \in DOMAIN pc :
        /\ \A i \in 1..Len(delays[c]) :
              /\ delays[c][i] >= WaitMin /\ delays[c][i] <= WaitMax
              /\ i <= Len(attempts[c]) /\ attempts[c][i] # Ok
              /\ i > 1 => delays[c][i] >= delays[c][i - 1]
        /\ Len(delays[c]) <= MaxAttempts - 1
        /\ pc[c] \in {"sleep", "post"} => Len(delays[c]) = Len(attempts[c])
        /\ (pc[c] \notin {"sleep", "post"} /\ attempts[c] # <<>>)
           => Len(delays[c]) = Len(attempts[c]) - 1

\* A call waited 1 s and then 2 s, and its third attempt is over
C18_Witness ==
    \E c \in DOMAIN pc :
        /\ delays[c] = <<1, 2>>
        /\ Len(attempts[c]) = MaxAttempts
        /\ pc[c] \notin {"sleep", "post"}

\* The call ended with the business error of the service: the not-found
\* error (404) that carries neither of the decoder's own two messages
BusinessErrorRaised(c) ==
    /\ outcome[c].kind = "HTTPException"
    /\ outcome[c].status_code = HTTP_404_NOT_FOUND
    /\ outcome[c].detail \notin {NoQuotesMessage, NoValuesMessage}

\* C19: decoding raises the business error exactly when the first top-level
\* ErrorMSG has text, whatever documento elements are present; without
\* ErrorMSG text the outcome is decided by the documento elements; and the
\* message of a raised business error is never the empty string.
C19_BusinessErrorPrecedence ==
    \A c \in DOMAIN pc :
        (Finished(c) /\ SentDoc(response[c]))
        => /\ BusinessErrorRaised(c) <=> Truthy(SentErrorText(response[c]))
           /\ ~Truthy(SentErrorText(response[c]))
              => (outcome[c].kind = "return" <=> SentPriced(response[c]) # <<>>)
           /\ BusinessErrorRaised(c) => outcome[c].detail.s # <<>>

\* An ErrorMSG of blanks next to a priced documento gave the business error
\* with an empty message
C19_EmptyMessage ==
    \E c \in DOMAIN pc :
        /\ Finished(c)
        /\ SentDoc(response[c])
        /\ SentErrorText(response[c]) = Str(<<" ">>)
        /\ SentPriced(response[c]) # <<>>
        /\ outcome[c] = HTTPException(HTTP_404_NOT_FOUND, Str(<<>>))

\* The same statement without its last part: it holds of the decoder
C19_RaisedWhenText ==
    \A c \in DOMAIN pc :
        (Finished(c) /\ SentDoc(response[c]))
        => /\ BusinessErrorRaised(c) <=> Truthy(SentErrorText(response[c]))
           /\ ~Truthy(SentErrorText(response[c]))
              => (outcome[c].kind = "return" <=> SentPriced(response[c]) # <<>>)

\* C20: the outcome of decoding a well-formed envelope is that of the
\* body, the response element and the return element found by their exact
\* local names, whatever their prefixes: without such a return element the
\* envelope is refused (502), and otherwise the outcome is that of the plain
\* envelope carrying the same return text; lookalike names, other cases and
\* the namespace URIs change nothing.
C20_ExactLocalNames ==
    \A c \in DOMAIN pc :
        (Finished(c) /\ "xml" \in DOMAIN response[c] /\ response[c].xml.wf)
        => LET ret == SentReturnElem(response[c])
           IN  IF ret = None
               THEN /\ outcome[c].kind = "HTTPException"
                    /\ outcome[c].status_code = HTTP_502_BAD_GATEWAY
               ELSE outcome[c] = ParseResponse(Envelope(ret.text), query[c])

\* An envelope whose only candidates were MessageBody and returnCode was
\* decoded as if they were the body and the return element
C20_LookalikeSelected ==
    \E c \in DOMAIN pc :
        /\ Finished(c)
        /\ response[c] = EnvelopeOf(<<>>, <<"Message", "Body">>,
                                    <<"AtenderMensajeRNDCResponse">>,
                                    <<"return", "Code">>, SAMPLE_XML)
        /\ outcome[c].kind = "return"

\* A Header whose namespace URI contains Body, placed before the Body, was
\* taken for the body: the quotes that follow were refused
C20_UriSelected ==
    \E c \in DOMAIN pc :
        /\ Finished(c)
        /\ response[c] = EnvelopeOf(<< NsE("h", BodyPartsUri, <<"Header">>, None, <<>>) >>,
                                    <<"Body">>, <<"AtenderMensajeRNDCResponse">>,
                                    <<"return">>, SAMPLE_XML)
        /\ outcome[c].kind = "HTTPException"
        /\ outcome[c].status_code = HTTP_502_BAD_GATEWAY

(***************************************************************************)
(* Building for the requests the route accepts: with and without the two   *)
(* filters, with no variables, an empty override and overrides of names    *)
(***************************************************************************)
BuildBodies ==
    [period          : {Str(Chars6), Str(<<"2", "0", "2", "4", "1", "2">>)},
     configuration   : {Str(<<"3", "s", "3">>), Str(<<"2">>)},
     origin          : {Str(<<"1", "1", "0", "0", "1", "0", "0", "0">>)},
     destination     : {Str(<<"5", "0", "0", "1", "0", "0", "0", "0">>)},
     cargo_type      : {None, Str(<<"General">>), Str(<<"CONTENEDOR">>)},
     unit_type       : {None, Str(<<"Estacas">>), Str(<<"TRAYLER">>)},
     logistics_hours : {Hours0},
     variables       : {None, <<>>, << <<" ", "valor", " ">>, <<"RUTA">> >>,
                        << <<"valor">>, <<" ">>, <<"DISTANCIA">> >>}]

InitBuild ==
    /\ pc       = [c \in Calls |-> "validate"]
    /\ query    = [c \in Calls |-> None]
    /\ payload  = [c \in Calls |-> <<>>]
    /\ attempts = [c \in Calls |-> <<>>]
    /\ delays   = [c \in Calls |-> <<>>]
    /\ response = [c \in Calls |-> None]
    /\ outcome  = [c \in Calls |-> NoOutcome]
    /\ http     = [c \in Calls |-> 0]
    /\ body     \in [Calls -> BuildBodies]
    /\ settings = Settings
    /\ environment = Environment
    /\ clock = 0
    /\ middleware = None
    /\ cache_service = None
    /\ connection_manager = None
    /\ db = None
    /\ log = None

NextBuild ==
    \/ \E c \in DOMAIN pc : Validate(c)
    \/ \E c \in DOMAIN pc : Build(c)

SpecBuild == InitBuild /\ [][NextBuild]_vars

\* The inner document a payload carries, as its receiver reads it
SentInner(p) == XmlUnescape(SentRequest(p))

\* The text of the first element called name in a document: what stands
\* between its start tag and the next end tag of that name; <<>> without one
SentElement(doc, name) ==
    LET opens  == {i \in 1..(Len(doc) - 2) : SubSeq(doc, i, i + 2) = Open(name)}
        from   == CHOOSE i \in opens : \A j \in opens : i <= j
        closes == {i \in 1..(Len(doc) - 3) :
                      opens # {} /\ i > from /\ SubSeq(doc, i, i + 3) = Close(name)}
        to     == CHOOSE i \in closes : \A j \in closes : i <= j
    IN  IF opens = {} \/ closes = {} THEN <<>> ELSE SubSeq(doc, from + 3, to - 1)

\* The document has an element called name
HasElement(doc, name) ==
    \E i \in 1..(Len(doc) - 2) : SubSeq(doc, i, i + 2) = Open(name)

\* C21: the documento of the inner document holds the company id and the
\* period, configuration, origin and destination of the query; it has a
\* NOMBREUNIDADTRANSPORTE element exactly when the query has a unit type and
\* a NOMBRETIPOCARGA element exactly when it has a cargo type; solicitud is
\* tipo 1, procesoid 26; and building makes no attempt on the network and
\* leaves the configuration and every result of the call as they were.
C21_DocumentOfQuery ==
    /\ [](\A c \in DOMAIN pc :
            pc[c] = "post"
            => LET inner     == SentInner(payload[c])
                   documento == SentElement(inner, "documento")
                   solicitud == SentElement(inner, "solicitud")
               IN  /\ SentElement(documento, "NUMNITEMPRESATRANSPORTE") = <<"900982995">>
                   /\ SentElement(documento, "PERIODO") = query[c].period.s
                   /\ SentElement(documento, "CONFIGURACION") = query[c].configuration.s
                   /\ SentElement(documento, "ORIGEN") = query[c].origin.s
                   /\ SentElement(documento, "DESTINO") = query[c].destination.s
                   /\ HasElement(documento, "NOMBREUNIDADTRANSPORTE")
                      <=> query[c].unit_type # None
                   /\ HasElement(documento, "NOMBRETIPOCARGA") <=> query[c].cargo_type # None
                   /\ query[c].unit_type # None
                      => SentElement(documento, "NOMBREUNIDADTRANSPORTE") = query[c].unit_type.s
                   /\ query[c].cargo_type # None
                      => SentElement(documento, "NOMBRETIPOCARGA") = query[c].cargo_type.s
                   /\ SentElement(solicitud, "tipo") = <<"1">>
                   /\ SentElement(solicitud, "procesoid") = <<"26">>)
    /\ [][\A c \in DOMAIN pc :
            (pc[c] = "idle" /\ pc'[c] = "post")
            => /\ attempts'[c] = attempts[c] /\ attempts[c] = <<>>
               /\ response'[c] = response[c]
               /\ outcome'[c] = outcome[c]
               /\ http'[c] = http[c]
               /\ settings' = settings
               /\ environment' = environment]_vars

\* A payload was built for a query with a unit type and without cargo type
C21_Witness ==
    \E c \in DOMAIN pc :
        /\ pc[c] = "post"
        /\ query[c].unit_type = Str(<<"ESTACAS">>)
        /\ query[c].cargo_type = None
        /\ HasElement(SentInner(payload[c]), "NOMBREUNIDADTRANSPORTE")
        /\ ~HasElement(SentInner(payload[c]), "NOMBRETIPOCARGA")

\* The variables element of a payload without the line break and the
\* indentation that surround its text
SentVariables(p) ==
    LET text == SentElement(SentInner(p), "variables")
    IN  IF Len(text) >= 4 /\ SubSeq(text, 1, 2) = <<"\n", "    ">>
                          /\ SubSeq(text, Len(text) - 1, Len(text)) = <<"\n", "  ">>
        THEN SubSeq(text, 3, Len(text) - 2)
        ELSE text

\* C22 (as claimed): the variables element is the override list joined by
\* commas whenever the query supplies a list, and the default list of eight
\* names only when it supplies none.
C22_OverrideWheneverSupplied ==
    \A c \in DOMAIN pc :
        pc[c] = "post"
        => SentVariables(payload[c])
           = Join(<<",", " ">>, IF query[c].variables = None
                                       THEN _DEFAULT_VARIABLES
                                ELSE query[c].variables)

\* C22 (amended): the variables element is the override list joined by
\* commas whenever the query supplies a list with at least one name, and the
\* default list of eight names when it supplies none or an empty list.
C22_OverrideWhenNotEmpty ==
    \A c \in DOMAIN pc :
        pc[c] = "post"
        => SentVariables(payload[c])
           = Join(<<",", " ">>,
                        IF query[c].variables = None \/ Len(query[c].variables) = 0
                        THEN << <<"RUTA">>, <<"NOMBREUNIDADTRANSPORTE">>,
                                <<"NOMBRETIPOCARGA">>, <<"NOMBRERUTA">>, <<"VALOR">>,
                                <<"VALORTONELADA">>, <<"VALORHORA">>, <<"DISTANCIA">> >>
                        ELSE query[c].variables)

\* Payloads were built from an override of two names and from an empty list
C22_Witness ==
    \E c \in DOMAIN pc :
        /\ pc[c] = "post"
        /\ query[c].variables # None
        /\ Len(query[c].variables) = 2
        /\ query[c].variables[1] = <<"VALOR">>
        /\ SentVariables(payload[c]) = <<"VALOR", ",", " ", "RUTA">>

\* The text a child of a documento stands for in the field map
SentChildText(child) == IF child.text = None THEN <<>> ELSE Strip(child.text.s)

\* C23: the field map of each documento sent has, for every child of the
\* documento, the child's trimmed text (the empty string for a child without
\* text, never null) under the child's tag name in lower case, and every
\* child's text is among the values of the map, also when the tag names of
\* two children are equal in lower case.
C23_EveryChildInFieldMap ==
    \A c \in DOMAIN pc :
        (Finished(c) /\ SentDoc(response[c]))
        => \A i \in 1..Len(SentDocuments(response[c])) :
              LET d      == SentDocuments(response[c])[i]
                  values == Values(Tree(d))
              IN  /\ \A k \in DOMAIN values : values[k] # None /\ IsStr(values[k])
                  /\ \A j \in 1..Len(d.children) :
                        /\ Lower(d.children[j].local) \in DOMAIN values
                        /\ \E k \in DOMAIN values :
                              values[k] = Str(SentChildText(d.children[j]))

\* A documento with ruta 106 and RUTA 200 gave a quote for route 200: the
\* text of the first of the two children is in no field
C23_FirstChildLost ==
    \E c \in DOMAIN pc :
        /\ Finished(c)
        /\ SentDoc(response[c])
        /\ Len(SentTop(response[c])) = 1
        /\ SentField(SentTop(response[c])[1], <<"ruta">>) = Str(<<"200">>)
        /\ outcome[c].kind = "return"
        /\ outcome[c].value[1].route_code = Str(<<"200">>)
        /\ \A k \in DOMAIN Values(Tree(SentTop(response[c])[1])) :
              Values(Tree(SentTop(response[c])[1]))[k] # Str(<<"106">>)

\* The same statement for documento elements whose children have tag names
\* that stay distinct in lower case: it holds of the decoder
C23_DistinctTagsKept ==
    \A c \in DOMAIN pc :
        (Finished(c) /\ SentDoc(response[c]))
        => \A i \in 1..Len(SentDocuments(response[c])) :
              LET d      == SentDocuments(response[c])[i]
                  values == Values(Tree(d))
              IN  (\A j, l \in 1..Len(d.children) :
                      Lower(d.children[j].local) = Lower(d.children[l].local) => j = l)
                  => \A j \in 1..Len(d.children) :
                        /\ Lower(d.children[j].local) \in DOMAIN values
                        /\ values[Lower(d.children[j].local)]
                           = Str(SentChildText(d.children[j]))

(***************************************************************************)
(* RateLimitMiddleware and RateLimitManager (app/middleware/rate_limit.py) *)
(*                                                                         *)
(* The clock runs in whole seconds.  The tokens of a bucket are a float in *)
(* the code; here a bucket holds tokens * window_seconds, an integer, so   *)
(* that (elapsed / window_seconds) * max_requests is exact: one token is   *)
(* window_seconds units.  Rounding of the float arithmetic is not modelled.*)
(* A path is a sequence of symbols: "/api/quotes/7" is                     *)
(* <<"/api/quote", "s", "/", "7">>.                                        *)
(***************************************************************************)
\* The class attribute, in the order the dict literal gives its keys
ENDPOINT_LIMITS ==
    << [endpoint |-> <<"/api/quote">>,      max_requests |-> 60,  window |-> 60],
       [endpoint |-> <<"/api/quote", "s">>, max_requests |-> 30,  window |-> 60],
       [endpoint |-> <<"/api/auth">>,       max_requests |-> 10,  window |-> 60],
       [endpoint |-> <<"/api/health">>,     max_requests |-> 100, window |-> 60],
       [endpoint |-> <<"default">>,         max_requests |-> 100, window |-> 60] >>

HTTP_200_OK == 200

HTTP_429_TOO_MANY_REQUESTS == 429

\* str.startswith
StartsWith(s, prefix) == Len(s) >= Len(prefix) /\ SubSeq(s, 1, Len(prefix)) = prefix

\* path.rstrip("/")
RECURSIVE RStripSlash(_)
RStripSlash(path) ==
    IF path # <<>> /\ path[Len(path)] = "/"
    THEN RStripSlash(SubSeq(path, 1, Len(path) - 1))
    ELSE path

\* path.split("?")[0]
BeforeQuery(path) ==
    LET marks == {i \in 1..Len(path) : path[i] = "?"}
    IN  IF marks = {} THEN path
        ELSE SubSeq(path, 1, (CHOOSE i \in marks : \A j \in marks : i <= j) - 1)

\* RateLimitManager.__init__ with burst_size left out
RateLimitManager(max_requests, window_seconds) ==
    [max_requests   |-> max_requests,
     window_seconds |-> window_seconds,
     burst_size     |-> max_requests * 2,
     buckets        |-> << >>]

\* RateLimitMiddleware.__init__: one manager per key of ENDPOINT_LIMITS
NewMiddleware ==
    [managers |-> [e \in {ENDPOINT_LIMITS[i].endpoint : i \in DOMAIN ENDPOINT_LIMITS} |->
        LET limits == ENDPOINT_LIMITS[CHOOSE i \in DOMAIN ENDPOINT_LIMITS :
                                         ENDPOINT_LIMITS[i].endpoint = e]
        IN  RateLimitManager(limits.max_requests, limits.window)]]

\* Mutant of _get_endpoint_path: the path has to be exactly the endpoint
_get_endpoint_path_exact(path) ==
    LET cut == BeforeQuery(RStripSlash(path))
    IN  IF \E i \in DOMAIN ENDPOINT_LIMITS : ENDPOINT_LIMITS[i].endpoint = cut
        THEN cut ELSE <<"default">>

\* The first key, in the order of the dict, that the path starts with
_get_endpoint_path(path) ==
    LET cut     == BeforeQuery(RStripSlash(path))
        matches == {i \in DOMAIN ENDPOINT_LIMITS :
                       /\ ENDPOINT_LIMITS[i].endpoint # <<"default">>
                       /\ StartsWith(cut, ENDPOINT_LIMITS[i].endpoint)}
    IN  IF matches = {} THEN <<"default">>
        ELSE ENDPOINT_LIMITS[CHOOSE i \in matches : \A j \in matches : i <= j].endpoint

_should_rate_limit(request) ==
    /\ ~StartsWith(request.path, <<"/static/">>)
    /\ ~StartsWith(request.path, <<"/ws">>)
    /\ \A monitor \in {"Datadog", "Pingdom", "UptimeRobot"} :
          ~Contains(<<monitor>>, request.user_agent)

\* api_key[:16] and the like
Take(s, n) == SubSeq(s, 1, IF Len(s) < n THEN Len(s) ELSE n)

\* Priority: API key, then the first forwarded address, then the peer.  The
\* middleware runs before the route's dependencies, so request.state has no
\* user when it asks.
_get_client_id(request) ==
    IF Truthy(request.api_key) THEN <<"api:">> \o Take(request.api_key.s, 16)
    ELSE IF Truthy(request.forwarded) THEN <<"ip:">> \o Take(request.forwarded.s, 1)
    ELSE <<"ip:">> \o request.host

\* _create_bucket
_create_bucket(manager, now) ==
    [tokens        |-> manager.max_requests * manager.window_seconds,
     last_refill   |-> now,
     request_count |-> 0,
     window_start  |-> now]

\* self.buckets[client_id] of the defaultdict
BucketOf(manager, client_id, now) ==
    IF client_id \in DOMAIN manager.buckets THEN manager.buckets[client_id]
    ELSE _create_bucket(manager, now)

\* Mutant of _refill_tokens: the cap at burst_size is left out
_refill_tokens_uncapped(manager, bucket, now) ==
    [bucket EXCEPT !.tokens = @ + (now - bucket.last_refill) * manager.max_requests,
                   !.last_refill = now]

_refill_tokens(manager, bucket, now) ==
    LET added  == (now - bucket.last_refill) * manager.max_requests
        cap    == manager.burst_size * manager.window_seconds
        reset  == now - bucket.window_start >= manager.window_seconds
    IN  [tokens        |-> IF bucket.tokens + added < cap THEN bucket.tokens + added ELSE cap,
         last_refill   |-> now,
         request_count |-> IF reset THEN 0 ELSE bucket.request_count,
         window_start  |-> IF reset THEN now ELSE bucket.window_start]

\* check_rate_limit: the bucket it leaves and what it returns
check_rate_limit(manager, request, now) ==
    LET filled  == _refill_tokens(manager, BucketOf(manager, _get_client_id(request), now), now)
        allowed == filled.tokens >= manager.window_seconds
    IN  [allowed |-> allowed,
         bucket  |-> IF allowed
                     THEN [filled EXCEPT !.tokens = @ - manager.window_seconds,
                                         !.request_count = @ + 1]
                     ELSE filled,
         limit   |-> manager.max_requests,
         remaining |-> IF allowed
                       THEN (filled.tokens - manager.window_seconds) \div manager.window_seconds
                       ELSE 0,
         retry_after |-> IF allowed THEN None
                         ELSE Str(<<manager.window_seconds - (now - filled.window_start)>>)]

\* d[k] = v
Put(d, k, v) == [x \in DOMAIN d \cup {k} |-> IF x = k THEN v ELSE d[x]]

\* The requests of one client to the endpoints
PlainRequest(path, host) ==
    [path |-> path, api_key |-> None, forwarded |-> None, host |-> <<host>>,
     user_agent |-> <<"curl">>]

MaxRequests == 16

MaxClock == 90

\* What is sent and the times at which it is sent: one client asking for one
\* path, at the start, half a window later and a window after that; and two
\* clients asking for the login at the start, three seconds later and at the
\* end
LimitEnvironments ==
    { [traffic |-> {PlainRequest(p, "10.0.0.1")}, times |-> {0, MaxClock \div 3, MaxClock},
        requests |-> MaxRequests] :
        p \in { <<"/api/auth", "/", "login">>, <<"/api/quote", "s", "/", "7">>,
                <<"/api/quote", "/">>, <<"/api/quote", "s", "?", "skip=1">>,
                <<"/metrics">>, <<"/ws", "/", "admin">> } }
    \cup { [traffic |-> {[PlainRequest(<<"/api/auth", "/", "login">>, "10.0.0.1")
                             EXCEPT !.api_key = Str(<<"lft_A">>)],
                         [PlainRequest(<<"/api/auth", "/", "login">>, "10.0.0.2")
                             EXCEPT !.forwarded = Str(<<"10.0.0.7", ",", " ", "10.0.0.9">>)]},
            times |-> {0, 3, MaxClock}, requests |-> MaxRequests - 4] }

InitLimit ==
    /\ pc       = << >>
    /\ query    = << >>
    /\ payload  = << >>
    /\ attempts = << >>
    /\ delays   = << >>
    /\ response = << >>
    /\ outcome  = << >>
    /\ http     = << >>
    /\ body     = << >>
    /\ settings = Settings
    /\ environment \in LimitEnvironments
    /\ clock = 0
    /\ middleware = NewMiddleware
    /\ cache_service = None
    /\ connection_manager = None
    /\ db = None
    /\ log = [count |-> 0, reply |-> None, handled |-> << >>]

(***************************************************************************)
(* time passes                                                             *)
(***************************************************************************)
Advance ==
    /\ \E later \in environment.times :
        /\ later > clock
        /\ clock' = later
    /\ UNCHANGED <<callVars, settings, environment, middleware, cache_service,
                   connection_manager, db, log>>

(***************************************************************************)
(* RateLimitMiddleware.dispatch for one request; call_next answers 200     *)
(***************************************************************************)
Dispatch ==
    /\ log.count < environment.requests
    /\ \E request \in environment.traffic :
        LET endpoint == _get_endpoint_path(request.path)
            manager  == middleware.managers[endpoint]
            checked  == check_rate_limit(manager, request, clock)
            key      == <<_get_client_id(request), request.path, clock>>
            before   == IF key \in DOMAIN log.handled THEN log.handled[key] ELSE 0
        IN  IF ~_should_rate_limit(request)
            THEN /\ log' = [count   |-> log.count + 1,
                            reply   |-> [request |-> request, status |-> HTTP_200_OK,
                                         called |-> TRUE, limit |-> None,
                                         remaining |-> None, retry_after |-> None],
                            handled |-> Put(log.handled, key, before + 1)]
                 /\ UNCHANGED middleware
            ELSE /\ middleware' =
                        [middleware EXCEPT !.managers[endpoint].buckets =
                            Put(@, _get_client_id(request), checked.bucket)]
                 /\ log' = [count   |-> log.count + 1,
                            reply   |-> [request |-> request,
                                         status |-> IF checked.allowed THEN HTTP_200_OK
                                                    ELSE HTTP_429_TOO_MANY_REQUESTS,
                                         called |-> checked.allowed,
                                         limit |-> Str(<<checked.limit>>),
                                         remaining |-> Str(<<checked.remaining>>),
                                         retry_after |-> checked.retry_after],
                            handled |-> IF checked.allowed
                                        THEN Put(log.handled, key, before + 1)
                                        ELSE log.handled]
    /\ UNCHANGED <<callVars, settings, environment, clock, cache_service,
                   connection_manager, db>>

NextLimit ==
    \/ Advance
    \/ Dispatch

SpecLimit == InitLimit /\ [][NextLimit]_vars

\* The configured endpoint a path belongs to: the longest one that the path
\* is, or that the path continues with a further segment; else the default
EndpointOf(path) ==
    LET cut  == BeforeQuery(path)
        fits == {i \in DOMAIN ENDPOINT_LIMITS :
                    LET e == ENDPOINT_LIMITS[i].endpoint
                    IN  /\ e # <<"default">>
                        /\ StartsWith(cut, e)
                        /\ (Len(cut) = Len(e) \/ cut[Len(e) + 1] = "/")}
    IN  IF fits = {} THEN Len(ENDPOINT_LIMITS)
        ELSE CHOOSE i \in fits :
                \A j \in fits : Len(ENDPOINT_LIMITS[j].endpoint) <= Len(ENDPOINT_LIMITS[i].endpoint)

\* The requests of a client to an endpoint that the handler served from
\* time `from` on and before `from` + window
ServedWithin(client, endpoint, from, window) ==
    SumOver(log.handled,
            {k \in DOMAIN log.handled :
                /\ k[1] = client
                /\ EndpointOf(k[2]) = endpoint
                /\ k[3] >= from /\ k[3] < from + window})

\* The paths the middleware leaves alone on purpose
Exempt(path) == StartsWith(path, <<"/static/">>) \/ StartsWith(path, <<"/ws">>)

\* C24: the handler serves a client at most max_requests requests to an
\* endpoint group within window_seconds, whenever the interval starts; a
\* request that is rejected is answered 429 and does not reach the handler.
C24_AtMostMaxPerWindow ==
    /\ \A k \in DOMAIN log.handled :
          ~Exempt(k[2])
          => ServedWithin(k[1], EndpointOf(k[2]), k[3],
                          ENDPOINT_LIMITS[EndpointOf(k[2])].window)
             <= ENDPOINT_LIMITS[EndpointOf(k[2])].max_requests
    /\ log.reply # None
       => (log.reply.called <=> log.reply.status # HTTP_429_TOO_MANY_REQUESTS)

\* Fifteen logins of one client were served within 30 seconds
C24_Burst ==
    \E k \in DOMAIN log.handled :
        /\ ENDPOINT_LIMITS[EndpointOf(k[2])].max_requests = 10
        /\ ServedWithin(k[1], EndpointOf(k[2]), k[3], 31) >= 15

\* C25: a rate-limited request is checked by the limiter of the endpoint its
\* path belongs to: the answer carries that endpoint's limit, and the
\* client's bucket is kept by that endpoint's manager and by no other.
C25_LimiterOfEndpoint ==
    log.reply # None /\ log.reply.limit # None
    => LET own == ENDPOINT_LIMITS[EndpointOf(log.reply.request.path)]
       IN  /\ log.reply.limit = Str(<<own.max_requests>>)
           /\ \A e \in DOMAIN middleware.managers :
                 _get_client_id(log.reply.request) \in DOMAIN middleware.managers[e].buckets
                 <=> e = own.endpoint

\* A request for /api/quotes/7 was answered with the limit of /api/quote
C25_QuotesUnderQuote ==
    /\ log.reply # None
    /\ log.reply.request.path = <<"/api/quote", "s", "/", "7">>
    /\ log.reply.limit = Str(<<60>>)
    /\ middleware.managers[<<"/api/quote", "s">>].buckets = << >>

\* What a bucket holds once it is refilled at time now: the bucket is new and
\* full (max_requests tokens) when the client has none
TokensAfterRefill(manager, client, now) ==
    LET had  == IF client \in DOMAIN manager.buckets
                THEN manager.buckets[client].tokens
                     + (now - manager.buckets[client].last_refill) * manager.max_requests
                ELSE manager.max_requests * manager.window_seconds
        most == manager.burst_size * manager.window_seconds
    IN  IF had < most THEN had ELSE most

\* C26: every bucket holds between 0 and burst_size tokens; a rate-limited
\* request is allowed exactly when its client's bucket, refilled, holds at
\* least one token; an allowed request takes exactly one token and a rejected
\* one takes none; and no bucket of another client changes.
C26_TokenBucket ==
    /\ [](middleware # None
          => \A e \in DOMAIN middleware.managers :
                \A d \in DOMAIN middleware.managers[e].buckets :
                    /\ middleware.managers[e].buckets[d].tokens >= 0
                    /\ middleware.managers[e].buckets[d].tokens
                       <= middleware.managers[e].burst_size
                          * middleware.managers[e].window_seconds)
    /\ [][(log'.count = log.count + 1 /\ log'.reply.limit # None)
          => \A e \in DOMAIN middleware.managers :
                LET before == middleware.managers[e]
                    after  == middleware'.managers[e]
                    client == _get_client_id(log'.reply.request)
                    one    == before.window_seconds
                    filled == TokensAfterRefill(before, client, clock)
                IN  /\ \A d \in DOMAIN after.buckets :
                          d # client => /\ d \in DOMAIN before.buckets
                                        /\ after.buckets[d] = before.buckets[d]
                    /\ DOMAIN before.buckets \subseteq DOMAIN after.buckets
                    /\ after # before
                       => /\ log'.reply.called <=> filled >= one
                          /\ after.buckets[client].tokens
                             = IF log'.reply.called THEN filled - one ELSE filled]_vars

\* A login was rejected while its client's bucket held part of a token, and
\* the other client has a bucket of its own
C26_Witness ==
    /\ log.reply # None
    /\ log.reply.status = HTTP_429_TOO_MANY_REQUESTS
    /\ LET manager == middleware.managers[<<"/api/auth">>]
           client  == _get_client_id(log.reply.request)
       IN  /\ manager.buckets[client].tokens > 0
           /\ manager.buckets[client].tokens < manager.window_seconds
           /\ \E d \in DOMAIN manager.buckets :
                 d # client /\ manager.buckets[d].tokens # manager.buckets[client].tokens

(***************************************************************************)
(* CacheService (services/cache.py): Redis first, process memory second.   *)
(* A Python int is PyInt(n); the Redis client returns decoded strings.  The  *)
(* cache_stats counters are left out of the state.                         *)
(***************************************************************************)
PyInt(n) == [int |-> n]

IsInt(v) == DOMAIN v = {"int"}

JSONDecodeError == [error |-> "JSONDecodeError"]

\* json.dumps of a one-digit int
json_dumps(value) == Str(<<CHOOSE d \in Digits : DigitVal(d) = value.int>>)

\* json.loads of a string: a one-digit number is an int, text without quotes
\* is no JSON
json_loads(text) ==
    IF Len(text.s) = 1 /\ text.s[1] \in Digits
    THEN PyInt(DigitVal(text.s[1]))
    ELSE JSONDecodeError

MemoryCacheLimit == 1000

MemoryCacheKeep == 800

MemoryCacheEvict == 200

CacheService(redis_client) ==
    [redis_client |-> redis_client, memory_cache |-> << >>]

\* redis_client.get: the value unless the key is unknown or its time is over
redis_get(client, key, now) ==
    IF key \in DOMAIN client.store /\ client.store[key].expires > now
    THEN client.store[key].value
    ELSE None

Without(d, keys) == [x \in DOMAIN d \ keys |-> d[x]]

_cleanup_memory_cache(memory_cache, now) ==
    LET expired_keys == {key \in DOMAIN memory_cache :
                            memory_cache[key].expires_at <= now}
        live   == Without(memory_cache, expired_keys)
        oldest == CHOOSE K \in SUBSET DOMAIN live :
                     /\ Cardinality(K) = MemoryCacheEvict
                     /\ \A k \in K : \A o \in DOMAIN live \ K :
                           live[k].expires_at <= live[o].expires_at
    IN  IF Cardinality(DOMAIN live) > MemoryCacheKeep
        THEN Without(live, oldest)
        ELSE live

\* the variant of get that looks into memory only
get_memory(service, key, default, now) ==
    IF key \in DOMAIN service.memory_cache
    THEN IF service.memory_cache[key].expires_at > now
         THEN [value |-> service.memory_cache[key].value, service |-> service]
         ELSE [value   |-> default,
               service |-> [service EXCEPT !.memory_cache = Without(@, {key})]]
    ELSE [value |-> default, service |-> service]

\* CacheService.get; redis_ok says whether the Redis call of this get succeeds
get(service, key, default, now, redis_ok) ==
    LET value == redis_get(service.redis_client, key, now)
    IN  IF /\ service.redis_client # None
           /\ redis_ok
           /\ Truthy(value)
           /\ json_loads(value) # JSONDecodeError
        THEN [value |-> json_loads(value), service |-> service]
        ELSE get_memory(service, key, default, now)

\* CacheService.set; it returns True on every path the model has
set(service, key, value, ttl, now, redis_ok) ==
    LET serialized == IF IsStr(value) THEN value ELSE json_dumps(value)
        stored == IF service.redis_client # None /\ redis_ok
                  THEN [store |-> Put(service.redis_client.store, key,
                                      [value |-> serialized, expires |-> now + ttl])]
                  ELSE service.redis_client
        memory == Put(service.memory_cache, key,
                      [value |-> value, expires_at |-> now + ttl])
    IN  [redis_client |-> stored,
         memory_cache |-> IF Cardinality(DOMAIN memory) > MemoryCacheLimit
                          THEN _cleanup_memory_cache(memory, now)
                          ELSE memory]

\* CacheService.delete
delete(service, key, redis_ok) ==
    [redis_client |-> IF service.redis_client # None /\ redis_ok
                      THEN [store |-> Without(service.redis_client.store, {key})]
                      ELSE service.redis_client,
     memory_cache |-> Without(service.memory_cache, {key})]

MaxTtl == 2

MaxCacheClock == 3

MaxCacheCalls == 4

\* Redis absent, available, or available with calls that may fail
CacheEnvironments ==
    { [redis  |-> r,
       times  |-> 0..MaxCacheClock,
       keys   |-> {"quote:a", "quote:b"},
       values |-> {PyInt(7), PyInt(8), Str(<<"7">>), Str(<<"a">>)},
       ttls   |-> {MaxTtl},
       requests |-> MaxCacheCalls] : r \in {"absent", "available", "failing"} }

RedisOutcomes == IF environment.redis = "failing" THEN {TRUE, FALSE} ELSE {TRUE}

InitCache ==
    /\ pc       = << >>
    /\ query    = << >>
    /\ payload  = << >>
    /\ attempts = << >>
    /\ delays   = << >>
    /\ response = << >>
    /\ outcome  = << >>
    /\ http     = << >>
    /\ body     = << >>
    /\ settings = Settings
    /\ environment \in CacheEnvironments
    /\ clock = 0
    /\ middleware = None
    /\ cache_service = CacheService(IF environment.redis = "absent" THEN None
                                    ELSE [store |-> << >>])
    /\ connection_manager = None
    /\ db = None
    /\ log = [count |-> 0, written |-> << >>, got |-> None]

\* await cache_service.set(key, value, ttl); the log keeps the last write
CacheSet ==
    /\ log.count < environment.requests
    /\ \E key \in environment.keys, value \in environment.values,
          ttl \in environment.ttls, redis_ok \in RedisOutcomes :
        /\ cache_service' = set(cache_service, key, value, ttl, clock, redis_ok)
        /\ log' = [log EXCEPT !.count = @ + 1,
                               !.written = Put(@, key, [value |-> value,
                                                        until |-> clock + ttl])]
    /\ UNCHANGED <<callVars, settings, environment, clock, middleware,
                   connection_manager, db>>

\* await cache_service.get(key); the log keeps the answer and the write it
\* follows
CacheGet ==
    /\ log.count < environment.requests
    /\ \E key \in environment.keys, redis_ok \in RedisOutcomes :
        LET got == get(cache_service, key, None, clock, redis_ok)
        IN  /\ cache_service' = got.service
            /\ log' = [log EXCEPT !.count = @ + 1, !.got =
                          [key |-> key, value |-> got.value, at |-> clock,
                           after |-> IF key \in DOMAIN log.written
                                     THEN log.written[key] ELSE None]]
    /\ UNCHANGED <<callVars, settings, environment, clock, middleware,
                   connection_manager, db>>

\* await cache_service.delete(key)
CacheDelete ==
    /\ log.count < environment.requests
    /\ \E key \in environment.keys, redis_ok \in RedisOutcomes :
        /\ cache_service' = delete(cache_service, key, redis_ok)
        /\ log' = [log EXCEPT !.count = @ + 1, !.written = Without(@, {key})]
    /\ UNCHANGED <<callVars, settings, environment, clock, middleware,
                   connection_manager, db>>

NextCache ==
    \/ Advance
    \/ CacheSet
    \/ CacheGet
    \/ CacheDelete

SpecCache == InitCache /\ [][NextCache]_vars

\* C27: a get(k) that follows a set(k, v, ttl) with no set or delete of k in
\* between, before ttl has elapsed, returns v, whether Redis is absent,
\* available or failing
C27_ReadYourWrites ==
    (log.got # None /\ log.got.after # None /\ log.got.at < log.got.after.until)
        => log.got.value = log.got.after.value

\* the write to Redis failed while Redis held an older value: the get
\* answers with the older value
C27_StaleAfterFailedWrite ==
    /\ log.got # None
    /\ log.got.after # None
    /\ log.got.at < log.got.after.until
    /\ log.got.after.value = PyInt(8)
    /\ log.got.value = PyInt(7)
    /\ cache_service.memory_cache[log.got.key].value = PyInt(8)

\* a string written with Redis available comes back as a number
C27_StringReadAsNumber ==
    /\ environment.redis = "available"
    /\ log.got # None
    /\ log.got.after # None
    /\ log.got.at < log.got.after.until
    /\ log.got.after.value = Str(<<"7">>)
    /\ log.got.value = PyInt(7)

\* the part of C27 about memory: no get answers from a memory entry whose
\* time is over
C27_NoExpiredMemoryEntry ==
    (log.got # None /\ environment.redis = "absent" /\ log.got.value # None)
        => /\ log.got.after # None
           /\ log.got.at < log.got.after.until

(***************************************************************************)
(* ConnectionManager (services/realtime.py) and the WebSocket handlers     *)
(* (api/websocket.py).  A dict is kept as CPython keeps it: the entries in *)
(* insertion order, a deleted entry leaving a hole, and an iterator that   *)
(* raises RuntimeError when the number of live entries has changed since   *)
(* it was created.  A user id and an email are sequences of symbols.       *)
(***************************************************************************)
ConnectionManager == [active_connections |-> << >>, user_subscriptions |-> << >>]

\* len(d) of a dict held as its entries
Used(entries) == Cardinality({i \in DOMAIN entries : entries[i] # None})

\* websocket in self.user_subscriptions
Has(entries, websocket) ==
    \E i \in DOMAIN entries : entries[i] # None /\ entries[i].websocket = websocket

IndexOf(entries, websocket) ==
    CHOOSE i \in DOMAIN entries : entries[i] # None /\ entries[i].websocket = websocket

\* ConnectionManager.connect after websocket.accept() has returned
connect(manager, websocket, user_id) ==
    [active_connections |->
        Put(manager.active_connections, user_id,
            (IF user_id \in DOMAIN manager.active_connections
             THEN manager.active_connections[user_id] ELSE {}) \cup {websocket}),
     user_subscriptions |->
        IF Has(manager.user_subscriptions, websocket)
        THEN [manager.user_subscriptions
                EXCEPT ![IndexOf(manager.user_subscriptions, websocket)].subscriptions = {}]
        ELSE Append(manager.user_subscriptions,
                    [websocket |-> websocket, subscriptions |-> {}])]

\* ConnectionManager.disconnect
disconnect(manager, websocket, user_id) ==
    [active_connections |->
        IF user_id \in DOMAIN manager.active_connections
        THEN IF manager.active_connections[user_id] \ {websocket} = {}
             THEN Without(manager.active_connections, {user_id})
             ELSE [manager.active_connections EXCEPT ![user_id] = @ \ {websocket}]
        ELSE manager.active_connections,
     user_subscriptions |->
        IF Has(manager.user_subscriptions, websocket)
        THEN [manager.user_subscriptions
                EXCEPT ![IndexOf(manager.user_subscriptions, websocket)] = None]
        ELSE manager.user_subscriptions]

\* ConnectionManager.subscribe_to_route up to its send_json
subscribe_to_route(manager, websocket, route_id) ==
    IF Has(manager.user_subscriptions, websocket)
    THEN [manager EXCEPT
            !.user_subscriptions[IndexOf(manager.user_subscriptions, websocket)]
                .subscriptions = @ \cup {route_id}]
    ELSE manager

\* ConnectionManager.unsubscribe_from_route up to its send_json
unsubscribe_from_route(manager, websocket, route_id) ==
    IF Has(manager.user_subscriptions, websocket)
    THEN [manager EXCEPT
            !.user_subscriptions[IndexOf(manager.user_subscriptions, websocket)]
                .subscriptions = @ \ {route_id}]
    ELSE manager

\* user_email.endswith("@liftit.co")
EndsWithLiftit(user_email) ==
    /\ Len(user_email) >= 2
    /\ user_email[Len(user_email) - 1] = "@"
    /\ user_email[Len(user_email)] = "liftit.co"

\* broadcast_price_update from the creation of the iterator, or from the
\* return of a send_json, to the next send_json, to the end of the loop or
\* to the RuntimeError of the iterator.  frame holds route_id, the position
\* of the iterator and the dict size the iterator has seen
broadcast_price_update(manager, frame) ==
    LET entries == manager.user_subscriptions
        next    == {i \in DOMAIN entries :
                       /\ i > frame.pos
                       /\ entries[i] # None
                       /\ frame.route_id \in entries[i].subscriptions}
        first   == CHOOSE i \in next : \A j \in next : i <= j
    IN  IF Used(entries) # frame.used
        THEN [frame EXCEPT !.state = "RuntimeError", !.websocket = 0]
        ELSE IF next = {}
             THEN [frame EXCEPT !.state = "returned", !.websocket = 0]
             ELSE [frame EXCEPT !.state = "send_json", !.pos = first,
                                !.websocket = entries[first].websocket]

MaxWebsockets == 3

\* the websockets in the order in which their handlers are started
Websockets == 1..MaxWebsockets

Routes == {"r1"}

\* what get_current_user_ws(token) gives: an exception or a user
RealtimeEnvironments ==
    { [users |-> { [raised |-> TRUE,  email |-> << >>],
                   [raised |-> FALSE, email |-> <<"ana", "@", "liftit.co">>],
                   [raised |-> FALSE, email |-> <<"eve", "@", "notliftit.co">>] },
       routes |-> Routes] }

Idle == [state |-> "idle", route_id |-> "", pos |-> 0, used |-> 0, websocket |-> 0]

\* the handler of w is the next one to start
Arrives(w) == pc[w] = "new" /\ \A v \in Websockets : v < w => pc[v] # "new"

InitRealtime ==
    /\ pc       = [w \in Websockets |-> "new"]
    /\ query    = [w \in Websockets |-> None]
    /\ payload  = Idle
    /\ attempts = << >>
    /\ delays   = << >>
    /\ response = << >>
    /\ outcome  = << >>
    /\ http     = << >>
    /\ body     = << >>
    /\ settings = Settings
    /\ environment \in RealtimeEnvironments
    /\ clock = 0
    /\ middleware = None
    /\ cache_service = None
    /\ connection_manager = ConnectionManager
    /\ db = None
    /\ log = [sent |-> [w \in Websockets |-> 0], failed |-> FALSE,
              throughout |-> {}, ever |-> {}, closed |-> {}]

\* the websockets subscribed to the route of the running broadcast
Subscribed(manager, route_id) ==
    {w \in Websockets :
        /\ Has(manager.user_subscriptions, w)
        /\ route_id \in manager.user_subscriptions[
                            IndexOf(manager.user_subscriptions, w)].subscriptions}

Broadcasting == payload.state = "send_json"

\* the history of the running broadcast after the manager has changed
Noted(manager) ==
    IF Broadcasting
    THEN [log EXCEPT
            !.throughout = @ \cap Subscribed(manager, payload.route_id),
            !.ever = @ \cup Subscribed(manager, payload.route_id)]
    ELSE log

\* websocket_endpoint (/ws) up to its first receive_json
WsConnect(w) ==
    /\ Arrives(w)
    /\ \E token \in BOOLEAN, user \in environment.users :
        LET user_id == IF token /\ ~user.raised THEN user.email ELSE <<"anonymous">>
        IN  /\ query' = [query EXCEPT ![w] = [path |-> "/ws", user_id |-> user_id]]
            /\ connection_manager' = connect(connection_manager, w, user_id)
            /\ pc' = [pc EXCEPT ![w] = "open"]
            /\ log' = Noted(connection_manager')
    /\ UNCHANGED <<payload, attempts, delays, response, outcome, http, body,
                   settings, environment, clock, middleware, cache_service, db>>

\* websocket_endpoint: one receive_json and what follows it, up to the next
\* receive_json or to the end of the handler
WsReceive(w) ==
    /\ pc[w] = "open"
    /\ query[w].path = "/ws"
    /\ \E action \in {"subscribe", "unsubscribe", "ping", "WebSocketDisconnect",
                      "Exception"},
          route_id \in environment.routes :
        LET acted == CASE action = "subscribe" ->
                            subscribe_to_route(connection_manager, w, route_id)
                       [] action = "unsubscribe" ->
                            unsubscribe_from_route(connection_manager, w, route_id)
                       [] OTHER -> connection_manager
        IN  IF action \in {"WebSocketDisconnect", "Exception"}
            THEN /\ connection_manager' = disconnect(acted, w, query[w].user_id)
                 /\ pc' = [pc EXCEPT ![w] = "closed"]
            ELSE /\ connection_manager' = acted
                 /\ pc' = pc
    /\ log' = Noted(connection_manager')
    /\ UNCHANGED <<query, payload, attempts, delays, response, outcome, http, body,
                   settings, environment, clock, middleware, cache_service, db>>

\* admin_websocket_endpoint (/ws/admin) up to its first receive_json
AdminConnect(w) ==
    /\ Arrives(w)
    /\ \E user \in environment.users :
        LET user_id == <<"admin_">> \o user.email
        IN  /\ query' = [query EXCEPT ![w] = [path |-> "/ws/admin", user_id |-> user_id]]
            /\ IF ~user.raised /\ EndsWithLiftit(user.email)
               THEN /\ connection_manager' = connect(connection_manager, w, user_id)
                    /\ pc' = [pc EXCEPT ![w] = "open"]
               ELSE /\ connection_manager' = connection_manager
                    /\ pc' = [pc EXCEPT ![w] = "closed"]
            /\ log' = Noted(connection_manager')
    /\ UNCHANGED <<payload, attempts, delays, response, outcome, http, body,
                   settings, environment, clock, middleware, cache_service, db>>

\* admin_websocket_endpoint: one receive_json and what follows it
AdminReceive(w) ==
    /\ pc[w] = "open"
    /\ query[w].path = "/ws/admin"
    /\ \E action \in {"get_stats", "WebSocketDisconnect", "Exception"} :
        CASE action = "WebSocketDisconnect" ->
                /\ connection_manager' =
                        disconnect(connection_manager, w, query[w].user_id)
                /\ pc' = [pc EXCEPT ![w] = "closed"]
          [] action = "Exception" ->
                /\ connection_manager' = connection_manager
                /\ pc' = [pc EXCEPT ![w] = "closed"]
          [] OTHER ->
                /\ connection_manager' = connection_manager
                /\ pc' = pc
    /\ log' = Noted(connection_manager')
    /\ UNCHANGED <<query, payload, attempts, delays, response, outcome, http, body,
                   settings, environment, clock, middleware, cache_service, db>>

\* the history of a broadcast that has come to a send_json
Sending(history, frame, sent) ==
    IF frame.state = "send_json"
    THEN [history EXCEPT !.sent[frame.websocket] = @ + 1,
                         !.failed = @ \/ ~sent]
    ELSE history

\* a call of broadcast_price_update up to its first send_json
BroadcastStart ==
    /\ payload.state # "send_json"
    /\ \E route_id \in environment.routes, sent \in BOOLEAN :
        LET frame == broadcast_price_update(connection_manager,
                        [Idle EXCEPT !.route_id = route_id,
                                     !.used = Used(connection_manager.user_subscriptions)])
        IN  /\ payload' = frame
            /\ log' = Sending([sent |-> [w \in Websockets |-> 0], failed |-> FALSE,
                               throughout |-> Subscribed(connection_manager, route_id),
                               ever |-> Subscribed(connection_manager, route_id),
                               closed |-> {w \in Websockets : pc[w] = "closed"}],
                              frame, sent)
    /\ UNCHANGED <<pc, query, attempts, delays, response, outcome, http, body,
                   settings, environment, clock, middleware, cache_service,
                   connection_manager, db>>

\* broadcast_price_update from the return of a send_json
BroadcastResume ==
    /\ payload.state = "send_json"
    /\ \E sent \in BOOLEAN :
        LET frame == broadcast_price_update(connection_manager,
                                            payload)
        IN  /\ payload' = frame
            /\ log' = Sending(log, frame, sent)
    /\ UNCHANGED <<pc, query, attempts, delays, response, outcome, http, body,
                   settings, environment, clock, middleware, cache_service,
                   connection_manager, db>>

NextRealtime ==
    \/ \E w \in Websockets : WsConnect(w)
    \/ \E w \in Websockets : WsReceive(w)
    \/ \E w \in Websockets : AdminConnect(w)
    \/ \E w \in Websockets : AdminReceive(w)
    \/ BroadcastStart
    \/ BroadcastResume

SpecRealtime == InitRealtime /\ [][NextRealtime]_vars

BroadcastOver == payload.state \in {"returned", "RuntimeError"}

\* C28: a broadcast never raises and never stops early, whatever connects or
\* disconnects while a send is in progress; when it is over, send_json was
\* called exactly once on every connection that was subscribed to the route
\* all through it, also after a send that failed, and on no connection that
\* was never subscribed while it ran
C28_ExactlyOnceToSubscribers ==
    BroadcastOver
        => /\ payload.state # "RuntimeError"
           /\ \A w \in log.throughout : log.sent[w] = 1
           /\ \A w \in Websockets \ log.ever : log.sent[w] = 0

\* a connect during the first send: the broadcast ends with RuntimeError and
\* a connection subscribed all through it got nothing
C28_RaisedAfterConnect ==
    /\ payload.state = "RuntimeError"
    /\ Used(connection_manager.user_subscriptions) > payload.used
    /\ \E w \in log.throughout : log.sent[w] = 0

\* a broadcast that came to its end went on after a failed send and reached
\* every subscriber once
C28_ReturnedAfterFailedSend ==
    /\ payload.state = "returned"
    /\ log.failed
    /\ Cardinality(log.throughout) = 2
    /\ \A w \in log.throughout : log.sent[w] = 1

Registered(w) ==
    \/ Has(connection_manager.user_subscriptions, w)
    \/ \E user_id \in DOMAIN connection_manager.active_connections :
          w \in connection_manager.active_connections[user_id]

\* the email of the admin handler of w is in the liftit.co domain
InLiftitDomain(w) ==
    LET user_email == Tail(query[w].user_id)
    IN  \E i \in DOMAIN user_email :
           user_email[i] = "@" /\ SubSeq(user_email, i + 1, Len(user_email)) = <<"liftit.co">>

\* C29: the websocket of a handler that has terminated is in neither
\* active_connections nor user_subscriptions, active_connections holds no
\* empty set, a broadcast started afterwards never sends to it, and the
\* websocket of a /ws/admin handler whose email is not in liftit.co is
\* never registered
C29_TerminatedHandlerForgotten ==
    /\ \A w \in Websockets : pc[w] = "closed" => ~Registered(w)
    /\ \A user_id \in DOMAIN connection_manager.active_connections :
          connection_manager.active_connections[user_id] # {}
    /\ \A w \in log.closed : log.sent[w] = 0
    /\ \A w \in Websockets :
          (query[w] # None /\ query[w].path = "/ws/admin" /\ ~InLiftitDomain(w))
              => ~Registered(w)

\* an admin handler ended by an exception other than WebSocketDisconnect:
\* its websocket is still in both registries
C29_AdminLeftRegistered ==
    \E w \in Websockets :
        /\ pc[w] = "closed"
        /\ query[w].path = "/ws/admin"
        /\ Has(connection_manager.user_subscriptions, w)
        /\ w \in connection_manager.active_connections[query[w].user_id]

(***************************************************************************)
(* Stored quotations (api/quotes_crud.py over models/database.py).  A row  *)
(* keeps the columns the handlers write after creation and quotes_data for *)
(* the rest; ids are given in the order of insertion.  current_user is the *)
(* decoded token, of which the handlers read "sub".                        *)
(***************************************************************************)
\* the variant of the filter that lets every row through
filter_any(quotations, current_user) == quotations

\* .filter(QuotationDB.user_id == current_user.get("sub"))
filter_user(quotations, current_user) ==
    SelectSeq(quotations, LAMBDA q : q.user_id = current_user.sub)

\* .filter(QuotationDB.id == quotation_id, <user filter>).first()
first_by_id(quotations, quotation_id, current_user) ==
    LET found == SelectSeq(filter_user(quotations, current_user),
                           LAMBDA q : q.id = quotation_id)
    IN  IF found = << >> THEN None ELSE found[1]

\* create_quotation once fetch_quotes has returned quotes
create_quotation(quotations, quotation_data, current_user, quotes, now) ==
    Append(quotations,
           [id |-> Len(quotations) + 1,
            created_at |-> now,
            updated_at |-> now,
            quotes_data |-> quotes,
            user_id |-> current_user.sub,
            company_name |-> quotation_data.company_name,
            notes |-> quotation_data.notes,
            status |-> Str(<<"active">>),
            selected_quote_index |-> None])

\* list_quotations
list_quotations(quotations, skip, limit, status, current_user) ==
    LET mine   == filter_user(quotations, current_user)
        rows   == IF status # None
                  THEN SelectSeq(mine, LAMBDA q : q.status = status)
                  ELSE mine
    IN  SubSeq(rows, skip + 1, IF skip + limit < Len(rows) THEN skip + limit
                               ELSE Len(rows))

\* update_quotation of a row that was found
updated(quotation, update_data, now) ==
    [quotation EXCEPT
        !.company_name = IF update_data.company_name # None
                         THEN update_data.company_name ELSE @,
        !.notes = IF update_data.notes # None THEN update_data.notes ELSE @,
        !.selected_quote_index = IF update_data.selected_quote_index # None
                                 THEN update_data.selected_quote_index ELSE @,
        !.status = IF update_data.status # None THEN update_data.status ELSE @,
        !.updated_at = now]

\* delete_quotation of a row that was found
deleted(quotation, now) ==
    [quotation EXCEPT !.status = Str(<<"deleted">>), !.updated_at = now]

MaxCrudCalls == 3

MaxCrudClock == 2

NoUpdate == [company_name |-> None, notes |-> None, selected_quote_index |-> None,
             status |-> None]

\* who calls: with ENVIRONMENT=local every caller is the mock user; otherwise
\* the caller is the decoded token, with or without "sub"
CrudEnvironments ==
    { [users |-> { [sub |-> Str(<<"dev-user-123">>)] }],
      [users |-> { [sub |-> Str(<<"u1">>)], [sub |-> Str(<<"u2">>)] }],
      [users |-> { [sub |-> Str(<<"u1">>)], [sub |-> None] }] }

Updates ==
    { NoUpdate,
      [NoUpdate EXCEPT !.notes = Str(<<"n">>)],
      [NoUpdate EXCEPT !.status = Str(<<"archived">>), !.selected_quote_index = PyInt(0)] }

InitCrud ==
    /\ pc       = << >>
    /\ query    = << >>
    /\ payload  = << >>
    /\ attempts = << >>
    /\ delays   = << >>
    /\ response = << >>
    /\ outcome  = << >>
    /\ http     = << >>
    /\ body     = << >>
    /\ settings = Settings
    /\ environment \in CrudEnvironments
    /\ clock = 0
    /\ middleware = None
    /\ cache_service = None
    /\ connection_manager = None
    /\ db = [quotations |-> << >>]
    /\ log = [count |-> 0, call |-> None]

\* the record of a call: what was asked, by whom, when, on which table, and
\* what was answered
Call(op, current_user, quotation_id, status_code, result) ==
    [count |-> log.count + 1,
     call |-> [op |-> op, current_user |-> current_user, id |-> quotation_id,
               at |-> clock, before |-> db.quotations,
               status_code |-> status_code, result |-> result]]

\* the clock of datetime.utcnow()
Tick ==
    /\ clock < MaxCrudClock
    /\ clock' = clock + 1
    /\ UNCHANGED <<callVars, settings, environment, middleware, cache_service,
                   connection_manager, db, log>>

\* POST /quotes/ ; fetch_quotes returns quotes or raises
CreateQuotation ==
    /\ log.count < MaxCrudCalls
    /\ \E current_user \in environment.users, fetched \in BOOLEAN :
        IF fetched
        THEN /\ db' = [db EXCEPT !.quotations =
                        create_quotation(@, [company_name |-> Str(<<"acme">>),
                                             notes |-> None],
                                         current_user, Str(<<"quotes">>), clock)]
             /\ log' = Call("create", current_user, Len(db.quotations) + 1,
                            HTTP_200_OK, <<Last(db'.quotations)>>)
        ELSE /\ db' = db
             /\ log' = Call("create", current_user, 0, HTTP_502_BAD_GATEWAY, << >>)
    /\ UNCHANGED <<callVars, settings, environment, clock, middleware,
                   cache_service, connection_manager>>

\* GET /quotes/
ListQuotations ==
    /\ log.count < MaxCrudCalls
    /\ \E current_user \in environment.users, skip \in {0, 1}, limit \in {1, 100},
          status \in {None, Str(<<"deleted">>)} :
        log' = Call("list", current_user, 0, HTTP_200_OK,
                    list_quotations(db.quotations, skip, limit, status, current_user))
    /\ UNCHANGED <<callVars, settings, environment, clock, middleware,
                   cache_service, connection_manager, db>>

\* GET /quotes/{quotation_id}
GetQuotation ==
    /\ log.count < MaxCrudCalls
    /\ \E current_user \in environment.users,
          quotation_id \in 1..(Len(db.quotations) + 1) :
        LET quotation == first_by_id(db.quotations, quotation_id, current_user)
        IN  log' = IF quotation = None
                   THEN Call("get", current_user, quotation_id,
                             HTTP_404_NOT_FOUND, << >>)
                   ELSE Call("get", current_user, quotation_id,
                             HTTP_200_OK, <<quotation>>)
    /\ UNCHANGED <<callVars, settings, environment, clock, middleware,
                   cache_service, connection_manager, db>>

\* PATCH /quotes/{quotation_id}
UpdateQuotation ==
    /\ log.count < MaxCrudCalls
    /\ \E current_user \in environment.users,
          quotation_id \in 1..(Len(db.quotations) + 1), update_data \in Updates :
        LET quotation == first_by_id(db.quotations, quotation_id, current_user)
        IN  IF quotation = None
            THEN /\ db' = db
                 /\ log' = Call("update", current_user, quotation_id,
                                HTTP_404_NOT_FOUND, << >>)
            ELSE /\ db' = [db EXCEPT !.quotations[quotation_id] =
                                        updated(quotation, update_data, clock)]
                 /\ log' = Call("update", current_user, quotation_id, HTTP_200_OK,
                                <<db'.quotations[quotation_id]>>)
    /\ UNCHANGED <<callVars, settings, environment, clock, middleware,
                   cache_service, connection_manager>>

\* DELETE /quotes/{quotation_id}
DeleteQuotation ==
    /\ log.count < MaxCrudCalls
    /\ \E current_user \in environment.users,
          quotation_id \in 1..(Len(db.quotations) + 1) :
        LET quotation == first_by_id(db.quotations, quotation_id, current_user)
        IN  IF quotation = None
            THEN /\ db' = db
                 /\ log' = Call("delete", current_user, quotation_id,
                                HTTP_404_NOT_FOUND, << >>)
            ELSE /\ db' = [db EXCEPT !.quotations[quotation_id] =
                                        deleted(quotation, clock)]
                 /\ log' = Call("delete", current_user, quotation_id,
                                HTTP_200_OK, << >>)
    /\ UNCHANGED <<callVars, settings, environment, clock, middleware,
                   cache_service, connection_manager>>

NextCrud ==
    \/ Tick
    \/ CreateQuotation
    \/ ListQuotations
    \/ GetQuotation
    \/ UpdateQuotation
    \/ DeleteQuotation

SpecCrud == InitCrud /\ [][NextCrud]_vars

\* the last call was made by someone else than the owner of the row it named
OnAnothersRow ==
    /\ log.call.id \in DOMAIN log.call.before
    /\ log.call.before[log.call.id].user_id # log.call.current_user.sub

\* what C30 says of list, get and update, and of the rows a delete keeps
Isolated ==
    log.call # None
        => /\ log.call.op \in {"list", "get"}
              => \A i \in DOMAIN log.call.result :
                    log.call.result[i].user_id = log.call.current_user.sub
           /\ (log.call.op \in {"update", "delete"} /\ OnAnothersRow)
              => /\ log.call.status_code = HTTP_404_NOT_FOUND
                 /\ db.quotations = log.call.before
           /\ log.call.op = "delete"
              => /\ Len(db.quotations) = Len(log.call.before)
                 /\ \A i \in DOMAIN db.quotations :
                       db.quotations[i].id = log.call.before[i].id

\* C30 as stated: list and get for U return only rows whose user_id is U; an
\* update or delete by U of a row of another user answers 404 and leaves the
\* table unchanged; a delete removes no row and changes nothing but the
\* status of the row, which becomes "deleted"
C30_IsolationStatusOnly ==
    /\ Isolated
    /\ (log.call # None /\ log.call.op = "delete"
            /\ log.call.status_code = HTTP_200_OK)
       => db.quotations = [log.call.before EXCEPT ![log.call.id].status = Str(<<"deleted">>)]

\* C30 with the delete as the code does it: the row's status becomes
\* "deleted" and its updated_at the time of the call, nothing else changes
C30_IsolationSoftDelete ==
    /\ Isolated
    /\ (log.call # None /\ log.call.op = "delete"
            /\ log.call.status_code = HTTP_200_OK)
       => db.quotations = [log.call.before EXCEPT
                              ![log.call.id].status = Str(<<"deleted">>),
                              ![log.call.id].updated_at = log.call.at]

\* u2 asked to delete the row of u1, next to a row of its own: 404, nothing
\* changed
C30_RefusedOnAnothersRow ==
    /\ log.call # None
    /\ log.call.op = "delete"
    /\ log.call.current_user.sub = Str(<<"u2">>)
    /\ OnAnothersRow
    /\ log.call.status_code = HTTP_404_NOT_FOUND
    /\ \E i \in DOMAIN db.quotations : db.quotations[i].user_id = Str(<<"u2">>)

\* u2 deleted its own row some time after it was created, next to a row of
\* u1: the row is kept with status "deleted" and a new updated_at
C30_Witness ==
    /\ log.call # None
    /\ log.call.op = "delete"
    /\ log.call.current_user.sub = Str(<<"u2">>)
    /\ log.call.status_code = HTTP_200_OK
    /\ db.quotations[log.call.id].status = Str(<<"deleted">>)
    /\ db.quotations[log.call.id].updated_at > log.call.before[log.call.id].updated_at
    /\ \E i \in DOMAIN db.quotations :
          /\ db.quotations[i].user_id = Str(<<"u1">>)
          /\ db.quotations[i].status = Str(<<"active">>)

====
